---- MODULE Spec2Model ----
(***************************************************************************)
(* TestBroker (order / position matching engine) and the Trader's order    *)
(* helpers of the autotrader repository.  Prices, units and cash are       *)
(* integers (price points); a candle is the current row of Data.           *)
(***************************************************************************)
EXTENDS Integers, Sequences, FiniteSets, TLC

\* ------------------------------------------------------------------ bounds
MaxPrice == 3
DataLen == 2
MaxOrders == 2
InitCash == 10
MaxKey == 4
MaxVal == 2
KeyLimit == 5
MaxRows == 1
MaxSum == 4
MaxCopyKey == 2
CandlesToKeep == 1
MaxCandles == 4
MaxCalls == 1
MaxFillPrice == 8
MaxSlippage == 2
SlipDen == 200
SampleDen == 4
MaxArithKey == 3
MaxRollLen == 5
MaxRollVal == 5
MaxPeriod == 5
MaxTicks == 3
NAVSwing == 2
MaxStart == 3

\* --------------------------------------------------------------- constants
Market == "MARKET"
Limit == "LIMIT"
Stop == "STOP"
CloseMarket == "M"
CloseStopLoss == "SL"
CloseTrailingStop == "TS"
CloseTakeProfit == "TP"
ErrCancelFailed == "cancel failed"
ErrZeroUnits == "no amount of units specifed"
ErrInvalidUnits == "invalid units"
NoErr == "nil"
ErrEOF == "end of the input data"
TraderSymbol == "EUR_USD"
OtherSymbol == "USD_JPY"

VARIABLES
    Cash,               \* TestBroker.Cash
    Spread,             \* TestBroker.Spread
    Slippage,           \* TestBroker.Slippage (largest price adjustment of a fill)
    candleCount,        \* TestBroker.candleCount
    candle,             \* row CandleIndex() of TestBroker.Data: high, low, close
    orders,             \* TestBroker.orders
    positions,          \* TestBroker.positions
    spreadCollectedUSD, \* TestBroker.spreadCollectedUSD
    emitted,            \* PositionClosed emissions, one counter per position
    mem,                \* heap: the slices, maps and Series the IndexedSeries point to
    objs,               \* the IndexedSeries structs (their pointers into mem)
    panicked,           \* a call on an IndexedSeries has panicked
    call,               \* the last call on an IndexedSeries or a Frame: its arguments
    cols,               \* the Series: name, length and signal connections
    frames,             \* the Frames: Frame.series and Frame.rowCounts
    trader              \* the Trader, its TraderStats and the position of Backtest

brokerVars == <<Cash, Spread, Slippage, candleCount, candle, orders, positions,
                spreadCollectedUSD, emitted>>

seriesVars == <<mem, objs, panicked, call>>

frameVars == <<cols, frames>>

traderVars == <<trader>>

vars == <<brokerVars, seriesVars, frameVars, traderVars>>

\* ------------------------------------------------------------ input domains
Prices == 1..MaxPrice
Candles == {c \in [high : Prices, low : Prices, close : Prices] :
              c.low <= c.close /\ c.close <= c.high}
OrderTypes == {Market, Limit, Stop}
Symbols == {TraderSymbol, OtherSymbol}
UnitsIn == {-2, 0, 2}
\* <<stopLoss, takeProfit>> arguments: none, fixed stop, trailing stop.
StopsIn == {<<0, 0>>, <<1, 2>>, <<-1, 2>>, <<-2, 0>>}
\* Arguments of TestBroker.Order.  Limit / stop orders carry no stops; the
\* second symbol is only traded at market without stops.
OrderInputs ==
    {a \in [orderType : OrderTypes, symbol : Symbols, units : UnitsIn,
            price : {0} \cup Prices, stopLoss : {-2, -1, 0, 1},
            takeProfit : {0, 2}] :
        /\ <<a.stopLoss, a.takeProfit>> \in StopsIn
        /\ a.orderType = Market => a.price \in {0, MaxPrice}
        /\ a.orderType # Market =>
              /\ a.price # 0
              /\ <<a.stopLoss, a.takeProfit>> = <<0, 0>>
        /\ a.symbol = OtherSymbol =>
              a.orderType = Market /\ a.price = 0 /\ a.stopLoss = 0 /\ a.takeProfit = 0}

\* ------------------------------------------------------------------ helpers
Max(a, b) == IF a > b THEN a ELSE b

Min(a, b) == IF a < b THEN a ELSE b

\* The broker fields that one call mutates, threaded through the helpers.
BrokerState == [Cash |-> Cash, orders |-> orders, positions |-> positions,
                spreadCollectedUSD |-> spreadCollectedUSD, emitted |-> emitted]

Bid(c) == c.close

Ask(c) == c.close + Spread

Price(c, wantToBuy) == IF wantToBuy THEN Ask(c) ELSE Bid(c)

EntryValue(p) == p.entryPrice * p.units

Value(p, c) ==
    IF p.closed THEN p.closePrice * p.units
    ELSE Price(c, p.units > 0) * p.units

PositionPL(p, c) == Value(p, c) - EntryValue(p)

\* TestBroker.NAV: cash plus the value of the open positions.
RECURSIVE OpenValueSum(_, _)
OpenValueSum(ps, c) ==
    IF ps = <<>> THEN 0
    ELSE (IF Head(ps).closed THEN 0 ELSE Value(Head(ps), c))
         + OpenValueSum(Tail(ps), c)

NAVOf(b, c) == b.Cash + OpenValueSum(b.positions, c)

\* TestBroker.PL: the PL of every position, open or closed.
RECURSIVE PLSum(_, _)
PLSum(ps, c) ==
    IF ps = <<>> THEN 0
    ELSE PositionPL(Head(ps), c) + PLSum(Tail(ps), c)

PLOf(b, c) == PLSum(b.positions, c)

NAV == NAVOf(BrokerState, candle)

PL == PLOf(BrokerState, candle)

Fulfilled(o) == o.position # 0

OpenOrders(os) == {i \in 1..Len(os) : ~Fulfilled(os[i])}

OpenPositions(ps) == {j \in 1..Len(ps) : ~ps[j].closed}

CandleIndex == Max(candleCount - 1, 0)

\* fulfill that opens the position without taking its entry value from Cash.
fulfillNoDebit(b, i, atPrice, slip) ==
    LET o == b.orders[i]
        p == [symbol |-> o.symbol,
              units |-> o.units,
              entryPrice |-> atPrice + slip,
              takeProfit |-> o.takeProfit,
              stopLoss |-> IF o.trailingSL > 0 THEN 0 ELSE o.stopLoss,
              trailingSLDist |-> IF o.trailingSL > 0 THEN o.trailingSL ELSE 0,
              trailingSL |-> 0,
              closed |-> FALSE,
              closePrice |-> 0,
              closeType |-> ""]
    IN [b EXCEPT !.orders[i].position = Len(b.positions) + 1,
                 !.positions = Append(@, p),
                 !.emitted = Append(@, 0)]

\* Prices with a fraction are counted in units of 1 / PriceScale: Slippage is
\* slippageNum / SlipDen and a sample of rand.Float64() is sample / SampleDen.
PriceScale == 2 * SampleDen * SlipDen

\* The first two lines of TestOrder.fulfill: the price the position is opened
\* at, in units of 1 / PriceScale, of a fill requested at atPrice.
SlippedPrice(atPrice, slippageNum, sample) ==
    LET slippage == 2 * sample * slippageNum * atPrice
    IN atPrice * PriceScale + (slippage - slippage \div 2)

\* TestOrder.fulfill: creates the position of order i at atPrice (+ slip).
fulfill(b, i, atPrice, slip) ==
    LET o == b.orders[i]
        p == [symbol |-> o.symbol,
              units |-> o.units,
              entryPrice |-> atPrice + slip,
              takeProfit |-> o.takeProfit,
              stopLoss |-> IF o.trailingSL > 0 THEN 0 ELSE o.stopLoss,
              trailingSLDist |-> IF o.trailingSL > 0 THEN o.trailingSL ELSE 0,
              trailingSL |-> 0,
              closed |-> FALSE,
              closePrice |-> 0,
              closeType |-> ""]
    IN [b EXCEPT !.orders[i].position = Len(b.positions) + 1,
                 !.Cash = @ - EntryValue(p),
                 !.positions = Append(@, p),
                 !.emitted = Append(@, 0)]

\* close without the "already closed" early return.
closeUnguarded(b, j, atPrice, closeType) ==
    [b EXCEPT !.positions[j].closed = TRUE,
              !.positions[j].closePrice = atPrice,
              !.positions[j].closeType = closeType,
              !.Cash = @ + atPrice * b.positions[j].units,
              !.spreadCollectedUSD = @ + Spread * b.positions[j].units,
              !.emitted[j] = @ + 1]

\* close that credits the close price instead of close price x units.
closeCreditsPrice(b, j, atPrice, closeType) ==
    IF b.positions[j].closed THEN b
    ELSE [b EXCEPT !.positions[j].closed = TRUE,
                   !.positions[j].closePrice = atPrice,
                   !.positions[j].closeType = closeType,
                   !.Cash = @ + atPrice,
                   !.spreadCollectedUSD = @ + Spread * b.positions[j].units,
                   !.emitted[j] = @ + 1]

\* TestPosition.close
close(b, j, atPrice, closeType) ==
    IF b.positions[j].closed THEN b
    ELSE [b EXCEPT !.positions[j].closed = TRUE,
                   !.positions[j].closePrice = atPrice,
                   !.positions[j].closeType = closeType,
                   !.Cash = @ + atPrice * b.positions[j].units,
                   !.spreadCollectedUSD = @ + Spread * b.positions[j].units,
                   !.emitted[j] = @ + 1]

\* TestPosition.Close
Close(b, j, c) == close(b, j, Price(c, b.positions[j].units < 0), CloseMarket)

\* Trigger test in which a Stop order only needs the high to reach its price.
OrderTriggeredStopAtHigh(o, c) ==
    IF o.orderType = Limit THEN o.price >= c.low /\ o.price <= c.high
    ELSE o.price <= c.high

\* The trigger test of a pending order in TestBroker.Tick.
OrderTriggered(o, c) ==
    IF o.orderType = Limit THEN o.price >= c.low /\ o.price <= c.high
    ELSE o.price <= c.high /\ o.price >= c.low

\* "Update orders" loop of TestBroker.Tick, from order i on.
RECURSIVE TickOrders(_, _, _, _)
TickOrders(b, i, c, slips) ==
    IF i > Len(b.orders) THEN b
    ELSE IF Fulfilled(b.orders[i]) THEN TickOrders(b, i + 1, c, slips)
    ELSE IF OrderTriggered(b.orders[i], c)
         THEN TickOrders(fulfill(b, i, b.orders[i].price, slips[i]), i + 1, c, slips)
         ELSE TickOrders(b, i + 1, c, slips)

\* Ratchet that follows the price down as well as up.
RatchetFollowsPrice(p, c) ==
    IF p.trailingSLDist > 0
    THEN [p EXCEPT !.trailingSL = Price(c, p.units < 0) - p.trailingSLDist]
    ELSE p

\* The trailing-stop ratchet of TestBroker.Tick.
Ratchet(p, c) ==
    IF p.trailingSLDist > 0
    THEN [p EXCEPT !.trailingSL =
              Max(p.trailingSL, Price(c, p.units < 0) - p.trailingSLDist)]
    ELSE p

TakeProfitHit(p, c) ==
    p.takeProfit > 0 /\ ((p.units > 0 /\ p.takeProfit <= c.high)
                         \/ (p.units < 0 /\ p.takeProfit >= c.low))

StopLossHit(p, c) ==
    p.stopLoss > 0 /\ ((p.units > 0 /\ p.stopLoss >= c.low)
                       \/ (p.units < 0 /\ p.stopLoss <= c.high))

TrailingStopHit(p, c) ==
    ~(p.stopLoss > 0) /\ p.trailingSL > 0
    /\ ((p.units > 0 /\ p.trailingSL >= c.low)
        \/ (p.units < 0 /\ p.trailingSL <= c.high))

\* Loop body that tests the stop-loss before the take-profit.
TickPositionStopFirst(b, j, c) ==
    LET r == [b EXCEPT !.positions[j] = Ratchet(b.positions[j], c)]
        p == r.positions[j]
    IN IF StopLossHit(p, c) THEN close(r, j, p.stopLoss, CloseStopLoss)
       ELSE IF TrailingStopHit(p, c) THEN close(r, j, p.trailingSL, CloseTrailingStop)
       ELSE IF TakeProfitHit(p, c) THEN close(r, j, p.takeProfit, CloseTakeProfit)
       ELSE r

\* Body of the "Update positions" loop of TestBroker.Tick for position j.
TickPosition(b, j, c) ==
    LET r == [b EXCEPT !.positions[j] = Ratchet(b.positions[j], c)]
        p == r.positions[j]
    IN IF TakeProfitHit(p, c) THEN close(r, j, p.takeProfit, CloseTakeProfit)
       ELSE IF StopLossHit(p, c) THEN close(r, j, p.stopLoss, CloseStopLoss)
       ELSE IF TrailingStopHit(p, c) THEN close(r, j, p.trailingSL, CloseTrailingStop)
       ELSE r

RECURSIVE TickPositions(_, _, _)
TickPositions(b, j, c) ==
    IF j > Len(b.positions) THEN b
    ELSE IF b.positions[j].closed THEN TickPositions(b, j + 1, c)
    ELSE TickPositions(TickPosition(b, j, c), j + 1, c)

\* Tick whose orders loop does not skip the fulfilled orders.
TickRefills(b, c, slips) ==
    LET forgot == [b EXCEPT !.orders =
                      [i \in 1..Len(b.orders) |-> [b.orders[i] EXCEPT !.position = 0]]]
        r == TickOrders(forgot, 1, c, slips)
        kept == [r EXCEPT !.orders =
                    [i \in 1..Len(r.orders) |->
                        IF r.orders[i].position = 0 THEN b.orders[i] ELSE r.orders[i]]]
    IN TickPositions(kept, 1, c)

\* Tick that updates the positions before the orders.
TickPositionsFirst(b, c, slips) == TickOrders(TickPositions(b, 1, c), 1, c, slips)

\* TestBroker.Tick
Tick(b, c, slips) == TickPositions(TickOrders(b, 1, c, slips), 1, c)

\* Order that fills a Market order at the price argument it was given.
TestBrokerOrderAtGivenPrice(b, c, orderType, symbol, units, price, stopLoss, takeProfit, slip) ==
    LET trailingSL == IF stopLoss < 0 THEN -stopLoss ELSE 0
        marketPrice == Price(c, units > 0)
        order == [orderType |-> orderType,
                  symbol |-> symbol,
                  units |-> units,
                  price |-> price,
                  trailingSL |-> trailingSL,
                  stopLoss |-> IF trailingSL > 0 THEN 0 ELSE stopLoss,
                  takeProfit |-> takeProfit,
                  position |-> 0]
        i == Len(b.orders) + 1
        placed == [b EXCEPT !.orders = Append(@, order)]
    IN IF units = 0 THEN [b |-> b, err |-> ErrZeroUnits]
       ELSE IF orderType = Market
            THEN [b |-> fulfill(placed, i, price, slip), err |-> NoErr]
       ELSE IF orderType = Limit
               /\ ((units > 0 /\ marketPrice <= price)
                   \/ (units < 0 /\ marketPrice >= price))
            THEN [b |-> fulfill(placed, i, price, slip), err |-> NoErr]
       ELSE [b |-> placed, err |-> NoErr]

\* Order that stores a negative stopLoss argument as the fixed stop-loss too.
TestBrokerOrderKeepsStopLoss(b, c, orderType, symbol, units, price, stopLoss, takeProfit, slip) ==
    LET trailingSL == IF stopLoss < 0 THEN -stopLoss ELSE 0
        marketPrice == Price(c, units > 0)
        oprice == IF orderType = Market THEN marketPrice ELSE price
        order == [orderType |-> orderType,
                  symbol |-> symbol,
                  units |-> units,
                  price |-> oprice,
                  trailingSL |-> trailingSL,
                  stopLoss |-> stopLoss,
                  takeProfit |-> takeProfit,
                  position |-> 0]
        i == Len(b.orders) + 1
        placed == [b EXCEPT !.orders = Append(@, order)]
    IN IF units = 0 THEN [b |-> b, err |-> ErrZeroUnits]
       ELSE IF orderType = Market
            THEN [b |-> fulfill(placed, i, oprice, slip), err |-> NoErr]
       ELSE IF orderType = Limit
               /\ ((units > 0 /\ marketPrice <= oprice)
                   \/ (units < 0 /\ marketPrice >= oprice))
            THEN [b |-> fulfill(placed, i, oprice, slip), err |-> NoErr]
       ELSE [b |-> placed, err |-> NoErr]

\* Order that fills only Market orders at placement.
TestBrokerOrderLimitPending(b, c, orderType, symbol, units, price, stopLoss, takeProfit, slip) ==
    LET trailingSL == IF stopLoss < 0 THEN -stopLoss ELSE 0
        marketPrice == Price(c, units > 0)
        oprice == IF orderType = Market THEN marketPrice ELSE price
        order == [orderType |-> orderType,
                  symbol |-> symbol,
                  units |-> units,
                  price |-> oprice,
                  trailingSL |-> trailingSL,
                  stopLoss |-> IF trailingSL > 0 THEN 0 ELSE stopLoss,
                  takeProfit |-> takeProfit,
                  position |-> 0]
        i == Len(b.orders) + 1
        placed == [b EXCEPT !.orders = Append(@, order)]
    IN IF units = 0 THEN [b |-> b, err |-> ErrZeroUnits]
       ELSE IF orderType = Market
            THEN [b |-> fulfill(placed, i, oprice, slip), err |-> NoErr]
       ELSE [b |-> placed, err |-> NoErr]

\* TestBroker.Order; Data is always set.  Returns the broker and the error.
TestBrokerOrder(b, c, orderType, symbol, units, price, stopLoss, takeProfit, slip) ==
    LET trailingSL == IF stopLoss < 0 THEN -stopLoss ELSE 0
        marketPrice == Price(c, units > 0)
        oprice == IF orderType = Market THEN marketPrice ELSE price
        order == [orderType |-> orderType,
                  symbol |-> symbol,
                  units |-> units,
                  price |-> oprice,
                  trailingSL |-> trailingSL,
                  stopLoss |-> IF trailingSL > 0 THEN 0 ELSE stopLoss,
                  takeProfit |-> takeProfit,
                  position |-> 0]
        i == Len(b.orders) + 1
        placed == [b EXCEPT !.orders = Append(@, order)]
    IN IF units = 0 THEN [b |-> b, err |-> ErrZeroUnits]
       ELSE IF orderType = Market
            THEN [b |-> fulfill(placed, i, oprice, slip), err |-> NoErr]
       ELSE IF orderType = Limit
               /\ ((units > 0 /\ marketPrice <= oprice)
                   \/ (units < 0 /\ marketPrice >= oprice))
            THEN [b |-> fulfill(placed, i, oprice, slip), err |-> NoErr]
       ELSE [b |-> placed, err |-> NoErr]

\* Cancel that succeeds on a pending order and takes it off the list.
CancelRemovesPending(b, i) ==
    IF Fulfilled(b.orders[i]) THEN [b |-> b, err |-> ErrCancelFailed]
    ELSE [b |-> [b EXCEPT !.orders = SubSeq(@, 1, i - 1) \o SubSeq(@, i + 1, Len(@))],
          err |-> NoErr]

\* TestOrder.Cancel: always fails, the order stays where it is.
Cancel(b, i) == [b |-> b, err |-> ErrCancelFailed]

\* Trader.Order
TraderOrder(b, c, orderType, units, price, stopLoss, takeProfit, slip) ==
    TestBrokerOrder(b, c, orderType, TraderSymbol, units, price, stopLoss,
                    takeProfit, slip)

\* Trader.CloseOrdersAndPositions, first loop: Cancel on every open order of
\* the trader's symbol (the error is dropped).
RECURSIVE CancelOrders(_, _)
CancelOrders(b, i) ==
    IF i > Len(b.orders) THEN b
    ELSE IF ~Fulfilled(b.orders[i]) /\ b.orders[i].symbol = TraderSymbol
         THEN CancelOrders(Cancel(b, i).b, i + 1)
         ELSE CancelOrders(b, i + 1)

\* Trader.CloseOrdersAndPositions, second loop: Close on every open position
\* of the trader's symbol.
RECURSIVE ClosePositions(_, _, _)
ClosePositions(b, j, c) ==
    IF j > Len(b.positions) THEN b
    ELSE IF ~b.positions[j].closed /\ b.positions[j].symbol = TraderSymbol
         THEN ClosePositions(Close(b, j, c), j + 1, c)
         ELSE ClosePositions(b, j + 1, c)

\* Trader.CloseOrdersAndPositions
CloseOrdersAndPositions(b, c) == ClosePositions(CancelOrders(b, 1), 1, c)

\* Buy that first closes the open orders and positions of the symbol.
BuyClosingFirst(b, c, units, stopLoss, takeProfit, slip) ==
    IF units <= 0 THEN [b |-> b, err |-> ErrInvalidUnits]
    ELSE TraderOrder(CloseOrdersAndPositions(b, c), c, Market, units, 0, stopLoss,
                     takeProfit, slip)

\* Buy that only rejects units = 0.
BuyAcceptsNegative(b, c, units, stopLoss, takeProfit, slip) ==
    IF units = 0 THEN [b |-> b, err |-> ErrInvalidUnits]
    ELSE TraderOrder(b, c, Market, units, 0, stopLoss, takeProfit, slip)

\* Trader.Buy
Buy(b, c, units, stopLoss, takeProfit, slip) ==
    IF units <= 0 THEN [b |-> b, err |-> ErrInvalidUnits]
    ELSE TraderOrder(b, c, Market, units, 0, stopLoss, takeProfit, slip)

\* Trader.Sell
Sell(b, c, units, stopLoss, takeProfit, slip) ==
    IF units <= 0 THEN [b |-> b, err |-> ErrInvalidUnits]
    ELSE TraderOrder(b, c, Market, -units, 0, stopLoss, takeProfit, slip)

\* ----------------------------------------------------------- IndexedSeries
Keys == 1..MaxKey
Vals == 1..MaxVal
Periods == {-1, 0, 2}
SeriesName == "test"
ObjIds == {1, 2}

\* A handler to connect to a SignalManager.
Handlers == {"onValueChanged"}
Panic == [panic |-> TRUE]

IsPanic(x) == "panic" \in DOMAIN x

EasyIndex(i, n) == IF i < 0 THEN n + i ELSE i

\* Go maps: assignment, delete and the zero value read of a missing key.
MapSet(m, k, v) == [x \in DOMAIN m \cup {k} |-> IF x = k THEN v ELSE m[x]]

MapDelete(m, k) == [x \in DOMAIN m \ {k} |-> m[x]]

MapGet(m, k) == IF k \in DOMAIN m THEN m[k] ELSE 0

\* UnixTimeStep(frequency) with a frequency of one key unit.
step(prev, amt) == prev + amt

\* slices.BinarySearch: rows are counted from 0 as in the source.
RECURSIVE BinarySearchLoop(_, _, _, _)
BinarySearchLoop(x, target, i, j) ==
    IF i < j
    THEN LET h == (i + j) \div 2
         IN IF x[h + 1] < target THEN BinarySearchLoop(x, target, h + 1, j)
            ELSE BinarySearchLoop(x, target, i, h)
    ELSE i

BinarySearch(x, target) ==
    LET i == BinarySearchLoop(x, target, 0, Len(x))
    IN [idx |-> i, found |-> i < Len(x) /\ x[i + 1] = target]

\* slices.Insert(s, i, v)
slicesInsert(x, i, v) == SubSeq(x, 1, i) \o <<v>> \o SubSeq(x, i + 1, Len(x))

\* slices.Index(s, v): -1 when v is not in s.
RECURSIVE slicesIndexFrom(_, _, _)
slicesIndexFrom(x, v, i) ==
    IF i >= Len(x) THEN -1
    ELSE IF x[i + 1] = v THEN i
    ELSE slicesIndexFrom(x, v, i + 1)

slicesIndex(x, v) == slicesIndexFrom(x, v, 0)

\* What slices.Delete(s, i, i+1) leaves in s when its result is dropped: the
\* elements after i move down one place in the same array, whose length and
\* last element stay (golang.org/x/exp of go.mod: append(s[:i], s[j:]...)).
slicesDeleteDropped(x, i) ==
    SubSeq(x, 1, i) \o SubSeq(x, i + 2, Len(x)) \o <<x[Len(x)]>>

\* Series.Range: the rows [start, end) that (start, count) selects of n rows.
Range(n, start, count) ==
    LET st == Max(Min(EasyIndex(start, n), n), 0)
        en == IF count < 0 THEN n ELSE Min(st + count, n)
    IN IF n = 0 \/ en <= st THEN [start |-> 0, end |-> 0]
       ELSE [start |-> st, end |-> en]

\* Series.SetValue
SeriesSetValue(data, i, val) ==
    LET r == EasyIndex(i, Len(data))
    IN IF r < Len(data) /\ r >= 0 THEN [data EXCEPT ![r + 1] = val] ELSE data

\* Series.Insert
SeriesInsert(data, i, val) ==
    IF i >= 0 /\ i <= Len(data) THEN slicesInsert(data, i, val) ELSE data

\* Series.Remove
SeriesRemove(data, i) ==
    LET r == EasyIndex(i, Len(data))
    IN IF r < Len(data) /\ r >= 0
       THEN SubSeq(data, 1, r) \o SubSeq(data, r + 2, Len(data))
       ELSE data

\* Series.RemoveRange
SeriesRemoveRange(data, start, count) ==
    LET r == Range(Len(data), start, count)
    IN SubSeq(data, 1, r.start) \o SubSeq(data, r.end + 1, Len(data))

\* "Shift the row values of all indexes after the inserted index."
RECURSIVE IncrementRows(_, _, _)
IncrementRows(m, ixs, i) ==
    IF i >= Len(ixs) THEN m
    ELSE IncrementRows(MapSet(m, ixs[i + 1], MapGet(m, ixs[i + 1]) + 1), ixs, i + 1)

\* insertIndex that leaves the rows of the keys after the new one as they were.
insertIndexNoShift(x, index) ==
    LET bs == BinarySearch(x.indexes, index)
        idx == bs.idx
        m == MapSet(x.index, index, idx)
    IN IF bs.found THEN [x |-> x, row |-> idx, exists |-> TRUE]
       ELSE IF idx >= Len(x.indexes)
       THEN [x |-> [x EXCEPT !.index = m, !.indexes = Append(@, index)],
             row |-> idx, exists |-> FALSE]
       ELSE [x |-> [x EXCEPT !.indexes = slicesInsert(x.indexes, idx, index),
                             !.index = m],
             row |-> idx, exists |-> FALSE]

\* IndexedSeries.insertIndex
insertIndex(x, index) ==
    LET bs == BinarySearch(x.indexes, index)
        idx == bs.idx
        m == MapSet(x.index, index, idx)
    IN IF bs.found THEN [x |-> x, row |-> idx, exists |-> TRUE]
       ELSE IF idx >= Len(x.indexes)
       THEN [x |-> [x EXCEPT !.index = m, !.indexes = Append(@, index)],
             row |-> idx, exists |-> FALSE]
       ELSE LET ins == slicesInsert(x.indexes, idx, index)
            IN [x |-> [x EXCEPT !.indexes = ins,
                                !.index = IncrementRows(m, ins, idx + 1)],
                row |-> idx, exists |-> FALSE]

\* IndexedSeries.Insert
Insert(x, index, val) ==
    LET r == insertIndex(x, index)
    IN IF r.exists THEN [r.x EXCEPT !.data = SeriesSetValue(@, r.row, val)]
       ELSE [r.x EXCEPT !.data = SeriesInsert(@, r.row, val)]

\* IndexedSeries.Remove
Remove(x, index) ==
    IF index \notin DOMAIN x.index THEN x
    ELSE LET row == x.index[index]
             m == MapDelete(x.index, index)
         IN [x EXCEPT !.index = [k \in DOMAIN m |-> IF m[k] > row THEN m[k] - 1 ELSE m[k]],
                      !.data = SeriesRemove(@, row)]

\* First loop of IndexedSeries.RemoveRange: every array the deletions can
\* leave, in whichever order the map is ranged over.
RECURSIVE DeleteEach(_, _)
DeleteEach(ixs, ks) ==
    IF ks = {} THEN {ixs}
    ELSE UNION {DeleteEach(slicesDeleteDropped(ixs, slicesIndex(ixs, k)), ks \ {k}) : k \in ks}

\* IndexedSeries.RemoveRange: the set of its outcomes.
RemoveRange(x, start, count) ==
    LET r == Range(Len(x.data), start, count)
        gone == {k \in DOMAIN x.index : x.index[k] >= r.start /\ x.index[k] < r.end}
        m == [k \in DOMAIN x.index \ gone |-> x.index[k]]
    IN IF r.start = r.end THEN {x}
       ELSE {[indexes |-> ixs,
              index |-> [k \in DOMAIN m |->
                           IF m[k] >= r.end THEN m[k] - (r.end - r.start) ELSE m[k]],
              data |-> SeriesRemoveRange(x.data, r.start, r.end - r.start)] :
                 ixs \in DeleteEach(x.indexes, gone)}

\* "Reassign the index map" loop of ShiftIndex, from row i on.
RECURSIVE ReassignIndex(_, _, _)
ReassignIndex(m, ixs, i) ==
    IF i >= Len(ixs) THEN m
    ELSE ReassignIndex(MapSet(m, ixs[i + 1], i), ixs, i + 1)

\* "Shift the indexes" loop of ShiftIndex (step is one-to-one).
ShiftKeys(m, periods) ==
    [kk \in {step(k, periods) : k \in DOMAIN m} |->
        m[CHOOSE k \in DOMAIN m : step(k, periods) = kk]]

\* "Update the index values" loop of ShiftIndex: the key slices it can leave
\* from row i on; a row that several keys of the map name gets the key of
\* whichever is ranged over last.
RECURSIVE Relabel(_, _, _)
Relabel(x, periods, i) ==
    IF i >= Len(x.indexes) THEN {<<>>}
    ELSE LET at == {k \in DOMAIN x.index : x.index[k] = i}
             cand == IF at = {} THEN {x.indexes[i + 1]}
                     ELSE {step(k, periods) : k \in at}
         IN {<<c>> \o t : c \in cand, t \in Relabel(x, periods, i + 1)}

\* IndexedSeries.ShiftIndex: the set of its outcomes, Panic when a row of the
\* map is outside the key slice.
ShiftIndex(x, periods) ==
    IF periods = 0 THEN {x}
    ELSE IF \E k \in DOMAIN x.index : x.index[k] < 0 \/ x.index[k] >= Len(x.indexes)
    THEN {Panic}
    ELSE {[x EXCEPT !.indexes = ixs,
                    !.index = ShiftKeys(ReassignIndex(<<>>, ixs, 0), periods)] :
             ixs \in Relabel(x, periods, 0)}

\* IndexedSeries.Index: ok is FALSE for nil.
Index(x, row) ==
    LET r == EasyIndex(row, Len(x.data))
    IN IF r < 0 \/ r >= Len(x.indexes) THEN [ok |-> FALSE, key |-> 0]
       ELSE [ok |-> TRUE, key |-> x.indexes[r + 1]]

\* IndexedSeries.Row
Row(x, index) == IF index \in DOMAIN x.index THEN x.index[index] ELSE -1

\* IndexedSeries.ValueIndex: 0 stands for nil.
ValueIndex(x, index) ==
    LET row == Row(x, index)
    IN IF row < 0 \/ row >= Len(x.data) THEN 0 ELSE x.data[row + 1]

\* IndexedSeries.SetValue
SetValue(x, row, val) == [x EXCEPT !.data = SeriesSetValue(@, row, val)]

\* IndexedSeries.Add: "for each index in self, add the corresponding value of
\* the other series"; a row outside either Series reads nil and panics.
Add(x, other) ==
    LET shared == DOMAIN x.index \cap DOMAIN other.index
    IN IF \E k \in shared : \/ x.index[k] >= Len(x.data)
                             \/ other.index[k] >= Len(other.data)
       THEN Panic
       ELSE [x EXCEPT !.data =
                [i \in 1..Len(x.data) |->
                    IF \E k \in shared : x.index[k] = i - 1
                    THEN LET k == CHOOSE k \in shared : x.index[k] = i - 1
                         IN x.data[i] + other.data[other.index[k] + 1]
                    ELSE x.data[i]]]

\* anymath.Multiply and anymath.Divide, of values whose quotient is whole.
Multiply(a, b) == a * b

Divide(a, b) == a \div b

\* The anymath function of the given name.
AnyMath(op, a, b) ==
    CASE op = "Multiply" -> Multiply(a, b)
      [] op = "Divide" -> Divide(a, b)

\* The loop that Add, Sub, Mul and Div share: "for index, row := range
\* s.index", with op for the anymath call of the loop.
Combine(op, x, other) ==
    LET shared == DOMAIN x.index \cap DOMAIN other.index
    IN IF \E k \in shared : \/ x.index[k] >= Len(x.data)
                             \/ other.index[k] >= Len(other.data)
       THEN Panic
       ELSE [x EXCEPT !.data =
                [i \in 1..Len(x.data) |->
                    IF \E k \in shared : x.index[k] = i - 1
                    THEN LET k == CHOOSE k \in shared : x.index[k] = i - 1
                         IN AnyMath(op, x.data[i], other.data[other.index[k] + 1])
                    ELSE x.data[i]]]

\* IndexedSeries.Sub: its loop calls anymath.Divide.
Sub(x, other) == Combine("Divide", x, other)

\* IndexedSeries.Mul
Mul(x, other) == Combine("Multiply", x, other)

\* IndexedSeries.Div
Div(x, other) == Combine("Divide", x, other)

\* The heap cells of IndexedSeries number id: its SignalManager, its Series,
\* its key slice and its key-to-row map.
Addr(id, f) == 4 * (id - 1) + f

NoObject == [live |-> FALSE, sm |-> 0, series |-> 0, indexes |-> 0, index |-> 0]

InitMem ==
    [a \in 1..8 |->
        CASE a % 4 = 1 -> {}
          [] a % 4 = 2 -> [name |-> "", data |-> <<>>, handlers |-> {}]
          [] OTHER -> <<>>]

Load(m, s) == [indexes |-> m[s.indexes], index |-> m[s.index], data |-> m[s.series].data]

Store(m, s, x) ==
    [m EXCEPT ![s.indexes] = x.indexes, ![s.index] = x.index, ![s.series].data = x.data]

\* NewIndexedSeries(name, nil) as object number id.
NewIndexedSeries(m, id, name) ==
    LET s == [live |-> TRUE, sm |-> Addr(id, 1), series |-> Addr(id, 2),
              indexes |-> Addr(id, 3), index |-> Addr(id, 4)]
    IN [s |-> s,
        m |-> [m EXCEPT ![s.sm] = {},
                        ![s.series] = [name |-> name, data |-> <<>>, handlers |-> {}],
                        ![s.indexes] = <<>>,
                        ![s.index] = <<>>]]

\* A CopyRange that keeps the pointer to the Series of the original.
CopyRangeShallow(m, src, id, start, count) ==
    LET x == Load(m, src)
        r == Range(Len(x.data), start, count)
        new == NewIndexedSeries(m, id, m[src.series].name)
        indexes == SubSeq(x.indexes, r.start + 1, r.end)
    IN IF r.start = r.end THEN new
       ELSE [s |-> [new.s EXCEPT !.series = src.series],
             m |-> [new.m EXCEPT ![new.s.indexes] = indexes,
                                 ![new.s.index] = ReassignIndex(<<>>, indexes, 0)]]

\* IndexedSeries.CopyRange, the copy being object number id.
CopyRange(m, src, id, start, count) ==
    LET x == Load(m, src)
        r == Range(Len(x.data), start, count)
        new == NewIndexedSeries(m, id, m[src.series].name)
        indexes == SubSeq(x.indexes, r.start + 1, r.end)
    IN IF r.start = r.end THEN new
       ELSE [s |-> new.s,
             m |-> [new.m EXCEPT ![new.s.indexes] = indexes,
                                 ![new.s.index] = ReassignIndex(<<>>, indexes, 0),
                                 ![new.s.series].data = SubSeq(x.data, r.start + 1, r.end)]]

\* IndexedSeries.Copy
Copy(m, src, id) == CopyRange(m, src, id, 0, -1)

\* Candles that copies one row more than the candles seen so far.
CandlesFrameAhead(m, data, id, cc, count) ==
    LET start == Max(Max(cc, 1) - count, 0)
        adjCount == cc - start + 1
    IN IF cc >= Len(Load(m, data).data)
       THEN [copy |-> CopyRange(m, data, id, -count, -1), err |-> ErrEOF]
       ELSE [copy |-> CopyRange(m, data, id, start, adjCount), err |-> NoErr]

\* TestBroker.Candles with Data set, data being a column of Data and cc
\* candleCount: the copy it returns, as object number id, and the error.
CandlesFrame(m, data, id, cc, count) ==
    LET start == Max(Max(cc, 1) - count, 0)
        adjCount == cc - start
    IN IF cc >= Len(Load(m, data).data)
       THEN [copy |-> CopyRange(m, data, id, -count, -1), err |-> ErrEOF]
       ELSE [copy |-> CopyRange(m, data, id, start, adjCount), err |-> NoErr]

\* A column of candle data: Insert of the keys 1..Len(vals) with these values.
RECURSIVE Filled(_, _, _)
Filled(x, vals, k) ==
    IF k > Len(vals) THEN x ELSE Filled(Insert(x, k, vals[k]), vals, k + 1)

\* No IndexedSeries exists.
SeriesIdle ==
    /\ mem = InitMem
    /\ objs = [id \in ObjIds |-> NoObject]
    /\ panicked = FALSE
    /\ call = [op |-> "none"]

\* ----------------------------------------------------------- RollingSeries
\* DataSeries.Copy(start, count): the values it copies.
DataSeriesCopy(data, start, count) ==
    LET n == Len(data)
        st == Max(Min(EasyIndex(start, n), n), 0)
        en == IF count < 0 THEN n ELSE Min(st + count, n)
    IN IF n = 0 \/ en <= st THEN <<>> ELSE SubSeq(data, st + 1, en)

\* The loop of RollingSeries.Value: "for j := i; j > i-s.period && j >= 0;
\* j--", every value put in front of the items.
RECURSIVE Window(_, _, _, _, _)
Window(data, period, i, j, items) ==
    IF j > i - period /\ j >= 0
    THEN Window(data, period, i, j - 1, <<data[j + 1]>> \o items)
    ELSE items

\* A Value that takes every row up to i, whatever the period.
RollingValueFromStart(data, period, i) ==
    LET r == EasyIndex(i, Len(data))
    IN IF r < 0 \/ r >= Len(data) THEN <<>>
       ELSE Window(data, r + 1, r, r, <<>>)

\* RollingSeries.Value
RollingValue(data, period, i) ==
    LET r == EasyIndex(i, Len(data))
    IN IF r < 0 \/ r >= Len(data) THEN <<>>
       ELSE Window(data, period, r, r, <<>>)

RECURSIVE SumOf(_)
SumOf(v) == IF v = <<>> THEN 0 ELSE Head(v) + SumOf(Tail(v))

\* The function that RollingSeries.Mean applies to the items of a row:
\* sum / float64(len(v)) as the fraction num / den, and 0 for no items.
Mean(v) ==
    IF Len(v) = 0 THEN [num |-> 0, den |-> 1]
    ELSE [num |-> SumOf(v), den |-> Len(v)]

\* s.Rolling(period).Mean() of a DataSeries with these values: the values of
\* the AppliedSeries, row by row.  WithValueFunc copies the series.
RollingMean(data, period) ==
    LET copy == DataSeriesCopy(DataSeriesCopy(data, 0, -1), 0, -1)
    IN [i \in 1..Len(copy) |-> Mean(RollingValue(copy, period, i - 1))]

\* ------------------------------------------------------------------- Frame
\* Column names, the Series objects and the Frames of the model.
ColNames == {"A", "B"}

SeriesIds == {1, 2, 3}

FrameIds == {1, 2}

\* A map without keys.
EmptyMap == [k \in {} |-> 0]

\* A nil slice of SignalHandler: arr is the backing array (its length is the
\* capacity), len the length of the slice.
NilSlice == [arr |-> <<>>, len |-> 0]

ZeroHandler == [identity |-> 0, callback |-> "", bindings |-> ""]

NoConnections == [NameChanged |-> NilSlice, LengthChanged |-> NilSlice]

NoFrame == [live |-> FALSE, series |-> EmptyMap, rowCounts |-> EmptyMap]

\* &Frame{} (the maps are made by the first PushSeries)
EmptyFrame == [live |-> TRUE, series |-> EmptyMap, rowCounts |-> EmptyMap]

\* The row of the first handler of the slice under identity with callback cb,
\* 0 when there is none.
RECURSIVE FindHandler(_, _, _, _)
FindHandler(sl, identity, cb, i) ==
    IF i > sl.len THEN 0
    ELSE IF sl.arr[i].identity = identity /\ sl.arr[i].callback = cb THEN i
    ELSE FindHandler(sl, identity, cb, i + 1)

\* The capacity append gives a full slice of capacity cap it adds one item to.
growslice(cap) == IF cap = 0 THEN 1 ELSE 2 * cap

\* append(sl, h): in place when the capacity allows, else in a new array.
append(sl, h) ==
    IF sl.len < Len(sl.arr)
    THEN [arr |-> [sl.arr EXCEPT ![sl.len + 1] = h], len |-> sl.len + 1, moved |-> FALSE]
    ELSE [arr |-> [j \in 1..growslice(Len(sl.arr)) |->
                      IF j <= sl.len THEN sl.arr[j]
                      ELSE IF j = sl.len + 1 THEN h ELSE ZeroHandler],
          len |-> sl.len + 1, moved |-> TRUE]

\* append(connections[:i], connections[i+1:]...): the items after row i move
\* one place down in the same array, whose last item stays where it was.
deleteAt(sl, i) ==
    [arr |-> [j \in 1..Len(sl.arr) |->
                 IF j >= i /\ j < sl.len THEN sl.arr[j + 1] ELSE sl.arr[j]],
     len |-> sl.len - 1, moved |-> FALSE]

\* The world w keeps the Series (cols) and the Frames; while a signal is being
\* emitted, emitting is the <<series, signal>> of the loop, view the array its
\* range statement reads, aliased whether that array is still the array of the
\* series' slice, and called the identities of the handlers called so far.
World(c, f) ==
    [cols |-> c, frames |-> f, emitting |-> <<0, "">>, view |-> <<>>,
     aliased |-> FALSE, called |-> <<>>, panic |-> FALSE]

\* The slice r becomes the connections of signal sig of series s.
SetConnections(w, s, sig, r) ==
    LET seen == w.emitting = <<s, sig>> /\ w.aliased
    IN [w EXCEPT !.cols[s].conns[sig] = [arr |-> r.arr, len |-> r.len],
                 !.view = IF seen /\ ~r.moved THEN r.arr ELSE @,
                 !.aliased = IF w.emitting = <<s, sig>> THEN seen /\ ~r.moved ELSE @]

\* SignalManager.SignalConnect
SignalConnect(w, s, sig, identity, cb, binding) ==
    LET sl == w.cols[s].conns[sig]
    IN IF FindHandler(sl, identity, cb, 1) # 0 THEN w
       ELSE SetConnections(w, s, sig,
                append(sl, [identity |-> identity, callback |-> cb, bindings |-> binding]))

\* SignalManager.SignalDisconnect
SignalDisconnect(w, s, sig, identity, cb) ==
    LET sl == w.cols[s].conns[sig]
        i == FindHandler(sl, identity, cb, 1)
    IN IF i = 0 THEN w ELSE SetConnections(w, s, sig, deleteAt(sl, i))

\* Frame.onSeriesLengthChanged
onSeriesLengthChanged(w, d, newLen, name) ==
    [w EXCEPT !.frames[d].rowCounts = MapSet(@, name, newLen)]

\* Frame.onSeriesNameChanged: a nil d.series[newName] is dereferenced.
onSeriesNameChanged(w, d, newName, oldName) ==
    LET fr == w.frames[d]
        series == MapDelete(MapSet(fr.series, newName, MapGet(fr.series, oldName)), oldName)
        rowCounts ==
            MapDelete(MapSet(fr.rowCounts, newName, MapGet(fr.rowCounts, oldName)), oldName)
        w1 == [w EXCEPT !.frames[d].series = series, !.frames[d].rowCounts = rowCounts]
        s == MapGet(series, newName)
        w2 == SignalDisconnect(w1, s, "LengthChanged", d, "onSeriesLengthChanged")
        w3 == SignalDisconnect(w2, s, "NameChanged", d, "onSeriesNameChanged")
        w4 == SignalConnect(w3, s, "LengthChanged", d, "onSeriesLengthChanged", newName)
    IN IF s = 0 THEN [w1 EXCEPT !.panic = TRUE]
       ELSE SignalConnect(w4, s, "NameChanged", d, "onSeriesNameChanged", newName)

\* handler.Callback(args...) with args the data followed by the bindings
Callback(w, h, data) ==
    CASE h.callback = "onSeriesNameChanged" ->
            onSeriesNameChanged(w, h.identity, data, h.bindings)
      [] h.callback = "onSeriesLengthChanged" ->
            onSeriesLengthChanged(w, h.identity, data, h.bindings)
      [] OTHER -> [w EXCEPT !.panic = TRUE]

\* The range loop of SignalEmit over the n items of the array it started on.
RECURSIVE EmitLoop(_, _, _, _)
EmitLoop(w, i, n, data) ==
    IF i > n \/ w.panic THEN w
    ELSE LET h == w.view[i]
         IN EmitLoop(Callback([w EXCEPT !.called = Append(@, h.identity)], h, data),
                     i + 1, n, data)

\* SignalManager.SignalEmit
SignalEmit(w, s, sig, data) ==
    LET sl == w.cols[s].conns[sig]
        w1 == [w EXCEPT !.emitting = <<s, sig>>, !.view = sl.arr, !.aliased = TRUE,
                        !.called = <<>>]
        w2 == EmitLoop(w1, 1, sl.len, data)
    IN [w2 EXCEPT !.emitting = <<0, "">>, !.view = <<>>, !.aliased = FALSE]

\* Series.SetName
SetName(w, s, name) ==
    IF name = w.cols[s].name THEN w
    ELSE SignalEmit([w EXCEPT !.cols[s].name = name], s, "NameChanged", name)

\* Series.Push
Push(w, s) ==
    SignalEmit([w EXCEPT !.cols[s].len = @ + 1], s, "LengthChanged", w.cols[s].len + 1)

\* The loop of Frame.PushSeries from the i-th series on; err tells whether it
\* returned the error.
RECURSIVE PushSeriesFrom(_, _, _, _)
PushSeriesFrom(w, d, series, i) ==
    IF i > Len(series) THEN [w |-> w, err |-> FALSE]
    ELSE LET s == series[i]
             name == w.cols[s].name
             w1 == SignalConnect(w, s, "LengthChanged", d, "onSeriesLengthChanged", name)
             w2 == SignalConnect(w1, s, "NameChanged", d, "onSeriesNameChanged", name)
             w3 == [w2 EXCEPT !.frames[d].series = MapSet(@, name, s),
                              !.frames[d].rowCounts = MapSet(@, name, w.cols[s].len)]
         IN IF name \in DOMAIN w.frames[d].series THEN [w |-> w, err |-> TRUE]
            ELSE PushSeriesFrom(w3, d, series, i + 1)

\* Frame.PushSeries
PushSeries(w, d, series) == PushSeriesFrom(w, d, series, 1)

\* The loop of Frame.PushValues from the i-th key on, order being the order
\* in which range yields the keys of the values map.
RECURSIVE PushValuesFrom(_, _, _, _)
PushValuesFrom(w, d, order, i) ==
    IF i > Len(order) THEN [w |-> w, err |-> FALSE]
    ELSE IF order[i] \notin DOMAIN w.frames[d].series THEN [w |-> w, err |-> TRUE]
    ELSE PushValuesFrom(Push(w, w.frames[d].series[order[i]]), d, order, i + 1)

\* Frame.PushValues of a map whose keys range yields in the given order.
FramePushValues(w, d, order) ==
    IF DOMAIN w.frames[d].series = {} THEN [w |-> w, err |-> TRUE]
    ELSE PushValuesFrom(w, d, order, 1)

\* The loop of Frame.RemoveSeries from the i-th name on.
RECURSIVE RemoveSeriesFrom(_, _, _, _)
RemoveSeriesFrom(w, d, names, i) ==
    IF i > Len(names) THEN w
    ELSE LET name == names[i]
             s == w.frames[d].series[name]
             w1 == SignalDisconnect(w, s, "LengthChanged", d, "onSeriesLengthChanged")
             w2 == SignalDisconnect(w1, s, "NameChanged", d, "onSeriesNameChanged")
             w3 == [w2 EXCEPT !.frames[d].series = MapDelete(@, name),
                              !.frames[d].rowCounts = MapDelete(@, name)]
         IN IF name \notin DOMAIN w.frames[d].series THEN w
            ELSE RemoveSeriesFrom(w3, d, names, i + 1)

\* Frame.RemoveSeries
RemoveSeries(w, d, names) == RemoveSeriesFrom(w, d, names, 1)

\* NewFrame(series...) as Frame number d; the error of PushSeries is dropped.
NewFrame(w, d, series) == PushSeries([w EXCEPT !.frames[d] = EmptyFrame], d, series).w

\* The loop of Frame.Select from the i-th name on, out being the new Frame.
RECURSIVE SelectFrom(_, _, _, _, _)
SelectFrom(w, d, out, names, i) ==
    IF i > Len(names) THEN w
    ELSE LET s == MapGet(w.frames[d].series, names[i])
         IN SelectFrom(IF s # 0 THEN PushSeries(w, out, <<s>>).w ELSE w,
                       d, out, names, i + 1)

\* Frame.Select, the view being Frame number out.
Select(w, d, out, names) == SelectFrom([w EXCEPT !.frames[out] = EmptyFrame], d, out, names, 1)

\* SignalConnect on the SignalManager that an IndexedSeries embeds, which is
\* not the one of the Series it wraps: its handlers are in cols[s].outer.
IndexedSeriesSignalConnect(w, s, sig, identity, cb, binding) ==
    LET sl == w.cols[s].outer[sig]
        r == append(sl, [identity |-> identity, callback |-> cb, bindings |-> binding])
    IN IF FindHandler(sl, identity, cb, 1) # 0 THEN w
       ELSE [w EXCEPT !.cols[s].outer[sig] = [arr |-> r.arr, len |-> r.len]]

\* The loop of IndexedFrame.PushSeries from the i-th series on.
RECURSIVE IndexedPushSeriesFrom(_, _, _, _)
IndexedPushSeriesFrom(w, f, series, i) ==
    IF i > Len(series) THEN [w |-> w, err |-> FALSE]
    ELSE LET s == series[i]
             name == w.cols[s].name
             w1 == IndexedSeriesSignalConnect(w, s, "NameChanged", f,
                                              "onSeriesNameChanged", name)
             w2 == [w1 EXCEPT !.frames[f].series = MapSet(@, name, s)]
         IN IF name \in DOMAIN w.frames[f].series THEN [w |-> w, err |-> TRUE]
            ELSE IndexedPushSeriesFrom(w2, f, series, i + 1)

\* NewIndexedFrame(series...) as Frame number f.
NewIndexedFrame(w, f, series) ==
    IndexedPushSeriesFrom([w EXCEPT !.frames[f] = EmptyFrame], f, series, 1).w

\* IndexedSeries.SetName: SetName of the Series it wraps, whose NameChanged
\* goes to the handlers of that Series.
IndexedSeriesSetName(w, s, name) == SetName(w, s, name)

\* IndexedFrame.Series(name), 0 for nil.
IndexedFrameSeries(fr, name) == MapGet(fr.series, name)

\* No Frame and no Series exists.
FrameIdle ==
    /\ cols = <<>>
    /\ frames = <<>>

\* ------------------------------------------------------------------ Trader
\* The six columns of TraderStats.Dated, without rows.
NewStats ==
    [Date |-> <<>>, Equity |-> <<>>, Profit |-> <<>>, Drawdown |-> <<>>,
     Returns |-> <<>>, Trades |-> <<>>]

\* A value of a column (an any): nil, or the value v.
Nil == <<>>

Some(v) == <<v>>

\* A Trader before Backtest is called with it: pc is the position of Backtest,
\* inits, ticks, nexts, advances and eofs count the calls of Strategy.Init,
\* Trader.Tick, Strategy.Next and TestBroker.Advance and the ErrEOF results of
\* Candles.
NoTrader ==
    [pc |-> "none", EOF |-> FALSE, connected |-> FALSE, data |-> [start |-> 0, end |-> 0],
     Dated |-> NewStats, returnsThisCandle |-> 0, tradesThisCandle |-> <<>>,
     inits |-> 0, ticks |-> 0, nexts |-> 0, advances |-> 0, eofs |-> 0]

\* No Trader is connected to the broker.
TraderIdle == trader = NoTrader

\* Trader.Init without the call of Strategy.Init.
TraderInitNoStrategy(t) ==
    [t EXCEPT !.Dated = NewStats, !.tradesThisCandle = <<>>, !.connected = TRUE]

\* Trader.Init: Strategy.Init, the stats frame and the two signal handlers.
TraderInit(t) ==
    [t EXCEPT !.inits = @ + 1, !.Dated = NewStats, !.tradesThisCandle = <<>>,
              !.connected = TRUE]

\* Candles that reports the end only past the last row.
TestBrokerCandlesLate(cc, count) ==
    LET start == Max(Max(cc, 1) - count, 0)
    IN IF cc > DataLen
       THEN [start |-> Range(DataLen, -count, -1).start, end |-> DataLen, err |-> ErrEOF]
       ELSE [start |-> start, end |-> cc, err |-> NoErr]

\* TestBroker.Candles with Data set: the rows start..end-1 of Data and the
\* error, cc being candleCount.
TestBrokerCandles(cc, count) ==
    LET start == Max(Max(cc, 1) - count, 0)
    IN IF cc >= DataLen
       THEN [start |-> Range(DataLen, -count, -1).start, end |-> DataLen, err |-> ErrEOF]
       ELSE [start |-> start, end |-> cc, err |-> NoErr]

\* Trader.fetchData
fetchData(t, cc) ==
    LET r == TestBrokerCandles(cc, CandlesToKeep)
    IN [t EXCEPT !.data = [start |-> r.start, end |-> r.end],
                 !.EOF = IF r.err = ErrEOF THEN TRUE ELSE @,
                 !.eofs = IF r.err = ErrEOF THEN @ + 1 ELSE @]

\* Trader.Tick up to its call of Strategy.Next
TickBegin(t, cc) ==
    [fetchData([t EXCEPT !.ticks = @ + 1], cc) EXCEPT !.nexts = @ + 1, !.pc = "next"]

\* Frame.Len of the stats frame: the largest row count of its columns.
StatsLen(d) ==
    CHOOSE n \in {Len(d[c]) : c \in DOMAIN d} : \A c \in DOMAIN d : Len(d[c]) <= n

\* Frame.PushValues with a value for every column of the frame.
PushValues(d, values) == [c \in DOMAIN d |-> Append(d[c], values[c])]

\* The rest of Trader.Tick that keeps returnsThisCandle.
TickStatsNoReset(t, nav, pl) ==
    LET bal == IF StatsLen(t.Dated) > 0 THEN t.Dated.Equity[1][1] ELSE nav
        row == [Date |-> Some(t.data.end),
                Equity |-> Some(nav),
                Profit |-> Some(pl),
                Drawdown |-> Some(Max(bal - nav, 0)),
                Returns |-> IF t.returnsThisCandle # 0 THEN Some(t.returnsThisCandle)
                            ELSE Nil,
                Trades |-> IF Len(t.tradesThisCandle) = 0 THEN Nil
                           ELSE Some(t.tradesThisCandle)]
    IN [t EXCEPT !.Dated = PushValues(@, row),
                 !.tradesThisCandle = <<>>,
                 !.pc = "advance"]

\* The rest of Trader.Tick with the drawdown taken from the highest Equity of
\* the rows so far.
TickStatsPeakDrawdown(t, nav, pl) ==
    LET seen == {t.Dated.Equity[i][1] : i \in 1..Len(t.Dated.Equity)} \cup {nav}
        bal == CHOOSE e \in seen : \A o \in seen : o <= e
        row == [Date |-> Some(t.data.end),
                Equity |-> Some(nav),
                Profit |-> Some(pl),
                Drawdown |-> Some(Max(bal - nav, 0)),
                Returns |-> IF t.returnsThisCandle # 0 THEN Some(t.returnsThisCandle)
                            ELSE Nil,
                Trades |-> IF Len(t.tradesThisCandle) = 0 THEN Nil
                           ELSE Some(t.tradesThisCandle)]
    IN [t EXCEPT !.Dated = PushValues(@, row),
                 !.tradesThisCandle = <<>>,
                 !.returnsThisCandle = 0,
                 !.pc = "advance"]

\* The rest of Trader.Tick, once Strategy.Next has returned: the stats row of
\* the tick (Date is the row of Data the fetched frame ends with) and the
\* reset of the accumulators.
TickStats(t, nav, pl) ==
    LET bal == IF StatsLen(t.Dated) > 0 THEN t.Dated.Equity[1][1] ELSE nav
        row == [Date |-> Some(t.data.end),
                Equity |-> Some(nav),
                Profit |-> Some(pl),
                Drawdown |-> Some(Max(bal - nav, 0)),
                Returns |-> IF t.returnsThisCandle # 0 THEN Some(t.returnsThisCandle)
                            ELSE Nil,
                Trades |-> IF Len(t.tradesThisCandle) = 0 THEN Nil
                           ELSE Some(t.tradesThisCandle)]
    IN [t EXCEPT !.Dated = PushValues(@, row),
                 !.tradesThisCandle = <<>>,
                 !.returnsThisCandle = 0,
                 !.pc = "advance"]

\* The Trader's handler of PositionClosed, p being the closed position.
OnPositionClosed(t, p, c) ==
    [t EXCEPT !.tradesThisCandle =
                  Append(@, [Price |-> p.closePrice, Units |-> p.units, Exit |-> TRUE]),
              !.returnsThisCandle = @ + PositionPL(p, c)]

\* The handler calls for the PositionClosed signals a broker call emitted,
\* which left the broker as b, from position j on.
RECURSIVE Handled(_, _, _, _, _)
Handled(t, before, b, c, j) ==
    IF j > Len(b.positions) \/ ~t.connected THEN t
    ELSE LET was == IF j <= Len(before) THEN before[j] ELSE 0
         IN Handled(IF b.emitted[j] > was THEN OnPositionClosed(t, b.positions[j], c) ELSE t,
                    before, b, c, j + 1)

\* Backtest after a call of the broker returned: Advance ends the round of the
\* loop, closeOrdersAndPositions after the loop ends the run.
Resume(t) ==
    CASE t.pc = "advance" -> [t EXCEPT !.pc = "loop", !.advances = @ + 1]
      [] t.pc = "loop" -> [t EXCEPT !.pc = "done"]
      [] OTHER -> t

\* ------------------------------------------------------------------ actions
Commit(b) ==
    /\ Cash' = b.Cash
    /\ orders' = b.orders
    /\ positions' = b.positions
    /\ spreadCollectedUSD' = b.spreadCollectedUSD
    /\ emitted' = b.emitted
    /\ trader' = Resume(Handled(trader, emitted, b, candle, 1))
    /\ UNCHANGED <<seriesVars, frameVars>>

\* NewTestBroker with Data set; the caller sets Spread and clears Slippage.
Init ==
    /\ Cash = InitCash
    /\ Spread \in {0, 1}
    /\ Slippage = 0
    /\ candleCount = 1
    /\ candle \in Candles
    /\ orders = <<>>
    /\ positions = <<>>
    /\ spreadCollectedUSD = 0
    /\ emitted = <<>>
    /\ SeriesIdle
    /\ FrameIdle
    /\ TraderIdle

\* TestBroker.Order
Order ==
    /\ Len(orders) < MaxOrders
    /\ \E a \in OrderInputs, slip \in 0..Slippage :
          Commit(TestBrokerOrder(BrokerState, candle, a.orderType, a.symbol, a.units,
                                 a.price, a.stopLoss, a.takeProfit, slip).b)
    /\ UNCHANGED <<Spread, Slippage, candleCount, candle>>

\* TestBroker.Advance
Advance ==
    /\ IF candleCount < DataLen
       THEN candleCount' = candleCount + 1 /\ candle' \in Candles
       ELSE UNCHANGED <<candleCount, candle>>
    /\ \E slips \in [1..Len(orders) -> 0..Slippage] :
          Commit(Tick(BrokerState, candle', slips))
    /\ UNCHANGED <<Spread, Slippage>>

\* TestBroker.Tick called on its own
BrokerTick ==
    /\ \E slips \in [1..Len(orders) -> 0..Slippage] :
          Commit(Tick(BrokerState, candle, slips))
    /\ UNCHANGED <<Spread, Slippage, candleCount, candle>>

\* TestPosition.Close
PositionClose ==
    /\ \E j \in 1..Len(positions) : Commit(Close(BrokerState, j, candle))
    /\ UNCHANGED <<Spread, Slippage, candleCount, candle>>

\* TestOrder.Cancel
OrderCancel ==
    /\ \E i \in 1..Len(orders) : Commit(Cancel(BrokerState, i).b)
    /\ UNCHANGED <<Spread, Slippage, candleCount, candle>>

\* Trader.Buy
TraderBuy ==
    /\ Len(orders) < MaxOrders
    /\ \E units \in UnitsIn, st \in StopsIn, slip \in 0..Slippage :
          Commit(Buy(BrokerState, candle, units, st[1], st[2], slip).b)
    /\ UNCHANGED <<Spread, Slippage, candleCount, candle>>

\* Trader.Sell
TraderSell ==
    /\ Len(orders) < MaxOrders
    /\ \E units \in UnitsIn, st \in StopsIn, slip \in 0..Slippage :
          Commit(Sell(BrokerState, candle, units, st[1], st[2], slip).b)
    /\ UNCHANGED <<Spread, Slippage, candleCount, candle>>

\* Trader.CloseOrdersAndPositions
TraderCloseOrdersAndPositions ==
    /\ Commit(CloseOrdersAndPositions(BrokerState, candle))
    /\ UNCHANGED <<Spread, Slippage, candleCount, candle>>

\* A caller of the broker's own API.
Next ==
    \/ Order
    \/ Advance
    \/ BrokerTick
    \/ PositionClose
    \/ OrderCancel

Spec == Init /\ [][Next]_vars

\* A strategy that only uses the Trader's order helpers, tick after tick.
NextTrader ==
    \/ TraderBuy
    \/ TraderSell
    \/ TraderCloseOrdersAndPositions
    \/ Advance

SpecTrader == Init /\ [][NextTrader]_vars

\* ------------------------------------------------------------ recorded calls
\* A call of the broker or of the Trader returned, leaving the broker as b;
\* call keeps the arguments and the error of the call.
Called(b, c) ==
    /\ Cash' = b.Cash
    /\ orders' = b.orders
    /\ positions' = b.positions
    /\ spreadCollectedUSD' = b.spreadCollectedUSD
    /\ emitted' = b.emitted
    /\ trader' = Resume(Handled(trader, emitted, b, candle, 1))
    /\ call' = c
    /\ UNCHANGED <<mem, objs, panicked, frameVars>>

\* Arguments of TestBroker.Order: every order type with a fixed stop, a
\* trailing stop or none.  The price of a Market order is not used.
CalledInputs ==
    {a \in [orderType : OrderTypes, units : UnitsIn, price : {0, 2},
            stopLoss : {-2, -1, 0, 1, 3}, takeProfit : {0, 2}] :
        /\ a.orderType = Market <=> a.price = 0
        /\ a.takeProfit # 0 => a.stopLoss = 1}

\* TestBroker.Order
OrderCalled ==
    /\ \E a \in CalledInputs, slip \in 0..Slippage :
          /\ Len(orders) < MaxCalls \/ a.units = 0
          /\ LET r == TestBrokerOrder(BrokerState, candle, a.orderType, TraderSymbol,
                                      a.units, a.price, a.stopLoss, a.takeProfit, slip)
             IN Called(r.b, [op |-> "Order", args |-> a, err |-> r.err])
    /\ UNCHANGED <<Spread, Slippage, candleCount, candle>>

\* Trader.Buy
BuyCalled ==
    /\ \E units \in UnitsIn, st \in StopsIn, slip \in 0..Slippage :
          /\ Len(orders) < MaxCalls \/ units <= 0
          /\ LET r == Buy(BrokerState, candle, units, st[1], st[2], slip)
             IN Called(r.b, [op |-> "Buy", units |-> units, stopLoss |-> st[1],
                             takeProfit |-> st[2], err |-> r.err])
    /\ UNCHANGED <<Spread, Slippage, candleCount, candle>>

\* Trader.Sell
SellCalled ==
    /\ \E units \in UnitsIn, st \in StopsIn, slip \in 0..Slippage :
          /\ Len(orders) < MaxCalls \/ units <= 0
          /\ LET r == Sell(BrokerState, candle, units, st[1], st[2], slip)
             IN Called(r.b, [op |-> "Sell", units |-> units, stopLoss |-> st[1],
                             takeProfit |-> st[2], err |-> r.err])
    /\ UNCHANGED <<Spread, Slippage, candleCount, candle>>

\* TestBroker.Advance
AdvanceCalled ==
    /\ IF candleCount < DataLen
       THEN candleCount' = candleCount + 1 /\ candle' \in Candles
       ELSE UNCHANGED <<candleCount, candle>>
    /\ \E slips \in [1..Len(orders) -> 0..Slippage] :
          Called(Tick(BrokerState, candle', slips), [op |-> "Advance"])
    /\ UNCHANGED <<Spread, Slippage>>

NextCalls ==
    \/ OrderCalled
    \/ BuyCalled
    \/ SellCalled
    \/ AdvanceCalled

SpecCalls == Init /\ [][NextCalls]_vars

\* --------------------------------------------------- IndexedSeries actions
\* The broker is not used.
BrokerIdle ==
    /\ Cash = InitCash
    /\ Spread = 0
    /\ Slippage = 0
    /\ candleCount = 1
    /\ candle = [high |-> 1, low |-> 1, close |-> 1]
    /\ orders = <<>>
    /\ positions = <<>>
    /\ spreadCollectedUSD = 0
    /\ emitted = <<>>

\* NewIndexedSeries("test", nil)
InitSeries ==
    /\ BrokerIdle
    /\ FrameIdle
    /\ TraderIdle
    /\ LET n == NewIndexedSeries(InitMem, 1, SeriesName)
       IN /\ mem = n.m
          /\ objs = [id \in ObjIds |-> IF id = 1 THEN n.s ELSE NoObject]
    /\ panicked = FALSE
    /\ call = [op |-> "NewIndexedSeries"]

Live == {id \in ObjIds : objs[id].live}

\* The IndexedSeries number id, by value.
IS(id) == Load(mem, objs[id])

KeysOf(x) == {x.indexes[i] : i \in 1..Len(x.indexes)} \cup DOMAIN x.index

\* The call c on object id returned, leaving it as x, or panicked.
Returned(id, x, c) ==
    /\ IF IsPanic(x)
       THEN panicked' = TRUE /\ UNCHANGED mem
       ELSE mem' = Store(mem, objs[id], x) /\ UNCHANGED panicked
    /\ call' = c
    /\ UNCHANGED <<objs, brokerVars, frameVars, traderVars>>

\* IndexedSeries.Insert of a key of the set keys
InsertOf(keys) ==
    /\ ~panicked
    /\ \E id \in Live, k \in keys, v \in Vals :
          /\ Len(IS(id).indexes) < Cardinality(keys) \/ BinarySearch(IS(id).indexes, k).found
          /\ Returned(id, Insert(IS(id), k, v),
                      [op |-> "Insert", id |-> id, key |-> k, val |-> v,
                       len |-> Len(IS(id).data)])

\* IndexedSeries.Insert
IndexedInsert == InsertOf(Keys)

\* IndexedSeries.Insert of one of the first MaxCopyKey keys
IndexedInsertFew == InsertOf(1..MaxCopyKey)

\* IndexedSeries.Remove
IndexedRemove ==
    /\ ~panicked
    /\ \E id \in Live, k \in Keys :
          Returned(id, Remove(IS(id), k),
                   [op |-> "Remove", id |-> id, key |-> k, len |-> Len(IS(id).data)])

\* IndexedSeries.RemoveRange
IndexedRemoveRange ==
    /\ ~panicked
    /\ \E id \in Live, start \in {-1, 0, 1}, count \in {-1, 1, 2} :
          \E x \in RemoveRange(IS(id), start, count) :
              Returned(id, x, [op |-> "RemoveRange", id |-> id, start |-> start,
                               count |-> count])

\* IndexedSeries.ShiftIndex
IndexedShiftIndex ==
    /\ ~panicked
    /\ \E id \in Live, periods \in Periods :
          \E x \in ShiftIndex(IS(id), periods) :
              /\ ~IsPanic(x) => \A k \in KeysOf(x) : k >= 0 /\ k <= KeyLimit
              /\ Returned(id, x, [op |-> "ShiftIndex", id |-> id, periods |-> periods])

\* Only Insert is called.
NextInsert == IndexedInsert

SpecInsert == InitSeries /\ [][NextInsert]_vars

\* Insert, Remove and RemoveRange are called.
NextSeries ==
    \/ IndexedInsert
    \/ IndexedRemove
    \/ IndexedRemoveRange

SpecSeries == InitSeries /\ [][NextSeries]_vars

\* Insert and ShiftIndex are called.
NextShift ==
    \/ IndexedInsert
    \/ IndexedShiftIndex

SpecShift == InitSeries /\ [][NextShift]_vars

\* IndexedSeries.SetValue
IndexedSetValue ==
    /\ ~panicked
    /\ \E id \in Live, row \in {-1, 0, 1}, v \in Vals :
          Returned(id, SetValue(IS(id), row, v),
                   [op |-> "SetValue", id |-> id, row |-> row, val |-> v])

\* The rows of the map are rows of the values, no two keys on one row.
RowsDistinct(x) ==
    \A k1 \in DOMAIN x.index :
        /\ x.index[k1] < Len(x.data)
        /\ \A k2 \in DOMAIN x.index : x.index[k1] = x.index[k2] => k1 = k2

\* IndexedSeries.Add, of series whose sums stay within MaxSum.
IndexedAdd ==
    /\ ~panicked
    /\ \E id \in Live, other \in Live :
          /\ RowsDistinct(IS(id)) /\ RowsDistinct(IS(other))
          /\ \A i \in 1..Len(Add(IS(id), IS(other)).data) :
                Add(IS(id), IS(other)).data[i] <= MaxSum
          /\ Returned(id, Add(IS(id), IS(other)),
                      [op |-> "Add", id |-> id, other |-> other])

\* SignalConnect on the SignalManager of an IndexedSeries.
IndexedSignalConnect ==
    /\ ~panicked
    /\ \E id \in Live, h \in Handlers :
          /\ mem' = [mem EXCEPT ![objs[id].sm] = @ \cup {h}]
          /\ call' = [op |-> "SignalConnect", id |-> id]
          /\ UNCHANGED <<objs, panicked, brokerVars, frameVars, traderVars>>

\* IndexedSeries.CopyRange (and Copy, which is CopyRange(0, -1))
IndexedCopyRange ==
    /\ ~panicked
    /\ \E src \in Live, id \in ObjIds \ Live, start \in {-1, 0, 1}, count \in {-1, 1} :
          LET n == CopyRange(mem, objs[src], id, start, count)
          IN /\ mem' = n.m
             /\ objs' = [objs EXCEPT ![id] = n.s]
             /\ call' = [op |-> "CopyRange", id |-> id, src |-> src, start |-> start,
                         count |-> count]
             /\ UNCHANGED <<panicked, brokerVars, frameVars, traderVars>>

\* An IndexedSeries is copied; both are written to.
NextCopy ==
    \/ IndexedInsertFew
    \/ IndexedRemove
    \/ IndexedSetValue
    \/ IndexedAdd
    \/ IndexedSignalConnect
    \/ IndexedCopyRange

SpecCopy == InitSeries /\ [][NextCopy]_vars

\* ------------------------------------------------------ arithmetic actions
\* Two calls of NewIndexedSeries("test", nil).
InitArith ==
    /\ BrokerIdle
    /\ FrameIdle
    /\ TraderIdle
    /\ LET a == NewIndexedSeries(InitMem, 1, SeriesName)
           b == NewIndexedSeries(a.m, 2, SeriesName)
       IN /\ mem = b.m
          /\ objs = <<a.s, b.s>>
    /\ panicked = FALSE
    /\ call = [op |-> "NewIndexedSeries"]

\* IndexedSeries.Insert of one of the first MaxArithKey keys
ArithInsert == InsertOf(1..MaxArithKey)

\* The values of x are whole and within MaxSum.
Whole(x) == IsPanic(x) \/ \A i \in 1..Len(x.data) : x.data[i] \in 1..MaxSum

\* The values of id at the keys it shares with other are multiples of other's.
Divisible(id, other) ==
    \A k \in DOMAIN IS(id).index \cap DOMAIN IS(other).index :
        ValueIndex(IS(id), k) % ValueIndex(IS(other), k) = 0

\* IndexedSeries.Add, Sub, Mul and Div
IndexedArith ==
    /\ ~panicked
    /\ \E id \in Live, other \in Live :
          \/ /\ Whole(Add(IS(id), IS(other)))
             /\ Returned(id, Add(IS(id), IS(other)),
                         [op |-> "Add", id |-> id, other |-> other])
          \/ /\ Divisible(id, other)
             /\ Returned(id, Sub(IS(id), IS(other)),
                         [op |-> "Sub", id |-> id, other |-> other])
          \/ /\ Whole(Mul(IS(id), IS(other)))
             /\ Returned(id, Mul(IS(id), IS(other)),
                         [op |-> "Mul", id |-> id, other |-> other])
          \/ /\ Divisible(id, other)
             /\ Returned(id, Div(IS(id), IS(other)),
                         [op |-> "Div", id |-> id, other |-> other])

NextArith ==
    \/ ArithInsert
    \/ IndexedArith

SpecArith == InitArith /\ [][NextArith]_vars

\* --------------------------------------------------------- Candles actions
\* The candle that row number row of the column x stands for.
RowCandle(x, row) ==
    [high |-> x.data[row + 1], low |-> x.data[row + 1], close |-> x.data[row + 1]]

\* NewTestBroker(nil, data, cash, 0, 0, 0) with 1..MaxCandles rows of data, of
\* which object 1 is a column.
InitCandles ==
    /\ FrameIdle
    /\ TraderIdle
    /\ \E n \in 1..MaxCandles : \E vals \in [1..n -> Vals] :
          LET new == NewIndexedSeries(InitMem, 1, SeriesName)
          IN /\ mem = Store(new.m, new.s, Filled(Load(new.m, new.s), vals, 1))
             /\ objs = [id \in ObjIds |-> IF id = 1 THEN new.s ELSE NoObject]
             /\ candle = [high |-> vals[1], low |-> vals[1], close |-> vals[1]]
    /\ panicked = FALSE
    /\ call = [op |-> "NewTestBroker"]
    /\ Cash = InitCash
    /\ Spread = 0
    /\ Slippage = 0
    /\ candleCount = 1
    /\ orders = <<>>
    /\ positions = <<>>
    /\ spreadCollectedUSD = 0
    /\ emitted = <<>>

\* TestBroker.Advance over the rows of object 1
CandlesAdvance ==
    /\ IF candleCount < Len(IS(1).data)
       THEN candleCount' = candleCount + 1 /\ candle' = RowCandle(IS(1), candleCount)
       ELSE UNCHANGED <<candleCount, candle>>
    /\ \E slips \in [1..Len(orders) -> 0..Slippage] :
          Commit(Tick(BrokerState, candle', slips))
    /\ UNCHANGED <<Spread, Slippage>>

\* TestBroker.Candles(symbol, frequency, count): object 2 is the frame returned
CandlesCall ==
    /\ \E count \in 1..(MaxCandles + 1) :
          LET r == CandlesFrame(mem, objs[1], 2, candleCount, count)
          IN /\ mem' = r.copy.m
             /\ objs' = [objs EXCEPT ![2] = r.copy.s]
             /\ call' = [op |-> "Candles", id |-> 2, count |-> count, err |-> r.err]
    /\ UNCHANGED <<panicked, brokerVars, frameVars, traderVars>>

\* The caller writes to the frame that Candles returned: SetValue and Insert
CandlesWrite ==
    /\ objs[2].live
    /\ \/ \E row \in {-1, 0, 1}, v \in Vals :
             Returned(2, SetValue(IS(2), row, v),
                      [op |-> "SetValue", id |-> 2, row |-> row, val |-> v])
       \/ \E k \in 1..(MaxCandles + 1), v \in Vals :
             Returned(2, Insert(IS(2), k, v),
                      [op |-> "Insert", id |-> 2, key |-> k, val |-> v])

NextCandles ==
    \/ CandlesAdvance
    \/ CandlesCall
    \/ CandlesWrite

SpecCandles == InitCandles /\ [][NextCandles]_vars

\* -------------------------------------------------------- slippage actions
\* An order is about to be filled at atPrice by a broker with this Slippage.
InitSlippage ==
    /\ BrokerIdle
    /\ FrameIdle
    /\ TraderIdle
    /\ mem = InitMem
    /\ objs = [id \in ObjIds |-> NoObject]
    /\ panicked = FALSE
    /\ \E atPrice \in 1..MaxFillPrice, slippageNum \in 0..MaxSlippage :
          call = [op |-> "fulfill", atPrice |-> atPrice, Slippage |-> slippageNum]

\* TestOrder.fulfill draws its sample and prices the position
FulfillSlipped ==
    /\ call.op = "fulfill"
    /\ \E sample \in 0..(SampleDen - 1) :
          call' = [op |-> "filled", atPrice |-> call.atPrice, Slippage |-> call.Slippage,
                   sample |-> sample,
                   entryPrice |-> SlippedPrice(call.atPrice, call.Slippage, sample)]
    /\ UNCHANGED <<mem, objs, panicked, brokerVars, frameVars, traderVars>>

NextSlippage == FulfillSlipped

SpecSlippage == InitSlippage /\ [][NextSlippage]_vars

\* --------------------------------------------------------- rolling actions
\* NewSeries("test", values...) of up to MaxRollLen values, and a period.
InitRolling ==
    /\ BrokerIdle
    /\ FrameIdle
    /\ TraderIdle
    /\ mem = InitMem
    /\ objs = [id \in ObjIds |-> NoObject]
    /\ panicked = FALSE
    /\ \E n \in 0..MaxRollLen, period \in 0..MaxPeriod :
          \E data \in [1..n -> 1..MaxRollVal] :
              call = [op |-> "NewSeries", data |-> data, period |-> period]

\* series.Rolling(period).Mean(), read row by row
RollingMeanCalled ==
    /\ call.op = "NewSeries"
    /\ call' = [op |-> "Mean", data |-> call.data, period |-> call.period,
                out |-> RollingMean(call.data, call.period)]
    /\ UNCHANGED <<mem, objs, panicked, brokerVars, frameVars, traderVars>>

NextRolling == RollingMeanCalled

SpecRolling == InitRolling /\ [][NextRolling]_vars

\* ----------------------------------------------------------- Frame actions
\* Three empty Series, two of them of one name, and no Frame yet.
InitFrame ==
    /\ BrokerIdle
    /\ TraderIdle
    /\ mem = InitMem
    /\ objs = [id \in ObjIds |-> NoObject]
    /\ panicked = FALSE
    /\ call = [op |-> "NewFrame"]
    /\ cols = [s \in SeriesIds |->
                 [name |-> IF s = 2 THEN "B" ELSE "A", len |-> 0, conns |-> NoConnections]]
    /\ frames = [d \in FrameIds |-> NoFrame]

LiveFrames == {d \in FrameIds : frames[d].live}

\* One or two Series, or one or two names, of a call.
SeriesArgs == {<<s>> : s \in SeriesIds} \cup (SeriesIds \X SeriesIds)

NameArgs == {<<n>> : n \in ColNames} \cup (ColNames \X ColNames)

\* The call c left the world as w.
FrameReturned(w, c) ==
    /\ cols' = w.cols
    /\ frames' = w.frames
    /\ panicked' = w.panic
    /\ call' = c
    /\ UNCHANGED <<mem, objs, brokerVars, traderVars>>

\* NewFrame(series...)
FrameNew ==
    /\ ~panicked
    /\ \E d \in FrameIds \ LiveFrames, series \in SeriesArgs :
          FrameReturned(NewFrame(World(cols, frames), d, series),
                        [op |-> "NewFrame", d |-> d])

\* Frame.Select
FrameSelect ==
    /\ ~panicked
    /\ \E d \in LiveFrames, out \in FrameIds \ LiveFrames, names \in NameArgs :
          FrameReturned(Select(World(cols, frames), d, out, names),
                        [op |-> "Select", d |-> d, out |-> out, names |-> names])

\* Frame.PushSeries
FramePushSeries ==
    /\ ~panicked
    /\ \E d \in LiveFrames, series \in SeriesArgs :
          LET r == PushSeries(World(cols, frames), d, series)
          IN FrameReturned(r.w, [op |-> "PushSeries", d |-> d, series |-> series,
                                 err |-> r.err])

\* Frame.RemoveSeries
FrameRemoveSeries ==
    /\ ~panicked
    /\ \E d \in LiveFrames, names \in NameArgs :
          FrameReturned(RemoveSeries(World(cols, frames), d, names),
                        [op |-> "RemoveSeries", d |-> d, names |-> names])

\* Series.SetName
SeriesSetName ==
    /\ ~panicked
    /\ \E s \in SeriesIds, name \in ColNames :
          LET w == SetName(World(cols, frames), s, name)
          IN FrameReturned(w, [op |-> "SetName", s |-> s, old |-> cols[s].name,
                               name |-> name, called |-> w.called])

\* Series.Push
SeriesPushValue ==
    /\ ~panicked
    /\ \E s \in SeriesIds :
          /\ cols[s].len < MaxRows
          /\ FrameReturned(Push(World(cols, frames), s), [op |-> "Push", s |-> s])

\* The orders in which range can yield the keys of a map of one or two names.
MapOrders == {<<n>> : n \in ColNames} \cup {o \in ColNames \X ColNames : o[1] # o[2]}

\* Frame.PushValues
FramePushedValues ==
    /\ ~panicked
    /\ \A s \in SeriesIds : cols[s].len < MaxRows
    /\ \E d \in LiveFrames, order \in MapOrders :
          LET r == FramePushValues(World(cols, frames), d, order)
          IN FrameReturned(r.w, [op |-> "PushValues", d |-> d, order |-> order,
                                 err |-> r.err])

\* Frames are made and rows of values pushed to them.
NextValues ==
    \/ FrameNew
    \/ FramePushedValues

SpecValues == InitFrame /\ [][NextValues]_vars

\* Three IndexedSeries, two of them of one name, and no IndexedFrame yet.
InitIndexedFrame ==
    /\ BrokerIdle
    /\ TraderIdle
    /\ mem = InitMem
    /\ objs = [id \in ObjIds |-> NoObject]
    /\ panicked = FALSE
    /\ call = [op |-> "NewIndexedFrame"]
    /\ cols = [s \in SeriesIds |->
                 [name |-> IF s = 2 THEN "B" ELSE "A", len |-> 0,
                  conns |-> NoConnections, outer |-> NoConnections]]
    /\ frames = [f \in FrameIds |-> NoFrame]

\* NewIndexedFrame(series...)
IndexedFrameNew ==
    /\ ~panicked
    /\ \E f \in FrameIds \ LiveFrames, series \in SeriesArgs :
          FrameReturned(NewIndexedFrame(World(cols, frames), f, series),
                        [op |-> "NewIndexedFrame", f |-> f])

\* IndexedSeries.SetName
IndexedSetName ==
    /\ ~panicked
    /\ \E s \in SeriesIds, name \in ColNames :
          FrameReturned(IndexedSeriesSetName(World(cols, frames), s, name),
                        [op |-> "SetName", s |-> s, old |-> cols[s].name,
                         name |-> name])

\* IndexedFrames are made and their columns renamed.
NextIndexedFrame ==
    \/ IndexedFrameNew
    \/ IndexedSetName

SpecIndexedFrame == InitIndexedFrame /\ [][NextIndexedFrame]_vars

\* Frames are made and selected from, columns renamed and pushed to.
NextRename ==
    \/ FrameNew
    \/ FrameSelect
    \/ SeriesSetName
    \/ SeriesPushValue

SpecRename == InitFrame /\ [][NextRename]_vars

\* Frames are made and series pushed to them.
NextPush ==
    \/ FrameNew
    \/ FramePushSeries

SpecPush == InitFrame /\ [][NextPush]_vars

\* Frames are made, series pushed to them and removed from them.
NextRemove ==
    \/ FrameNew
    \/ FramePushSeries
    \/ FrameRemoveSeries

SpecRemove == InitFrame /\ [][NextRemove]_vars

\* --------------------------------------------------------- Backtest actions
\* A TestBroker with Data set and a Trader that Backtest is called with.
InitBacktest ==
    /\ Cash = InitCash
    /\ Spread \in {0, 1}
    /\ Slippage = 0
    /\ candleCount = 1
    /\ candle \in Candles
    /\ orders = <<>>
    /\ positions = <<>>
    /\ spreadCollectedUSD = 0
    /\ emitted = <<>>
    /\ SeriesIdle
    /\ FrameIdle
    /\ trader = [NoTrader EXCEPT !.pc = "start"]

\* Backtest: trader.Init()
BacktestInit ==
    /\ trader.pc = "start"
    /\ trader' = [TraderInit(trader) EXCEPT !.pc = "loop"]
    /\ UNCHANGED <<brokerVars, seriesVars, frameVars>>

\* Backtest: trader.Tick() while not EOF, up to the call of Strategy.Next
TraderTickBegin ==
    /\ trader.pc = "loop"
    /\ ~trader.EOF
    /\ trader' = TickBegin(trader, candleCount)
    /\ UNCHANGED <<brokerVars, seriesVars, frameVars>>

\* Strategy.Next calls Trader.Buy
StrategyBuy == trader.pc = "next" /\ TraderBuy

\* Strategy.Next calls Trader.Sell
StrategySell == trader.pc = "next" /\ TraderSell

\* Strategy.Next calls Trader.CloseOrdersAndPositions
StrategyClose == trader.pc = "next" /\ TraderCloseOrdersAndPositions

\* Strategy.Next returns and Trader.Tick pushes the stats row
TraderTickEnd ==
    /\ trader.pc = "next"
    /\ trader' = TickStats(trader, NAV, PL)
    /\ UNCHANGED <<brokerVars, seriesVars, frameVars>>

\* Backtest: broker.Advance()
BacktestAdvance == trader.pc = "advance" /\ Advance

\* Backtest: trader.closeOrdersAndPositions() after the loop
BacktestFinish ==
    /\ trader.pc = "loop"
    /\ trader.EOF
    /\ TraderCloseOrdersAndPositions

NextBacktest ==
    \/ BacktestInit
    \/ TraderTickBegin
    \/ StrategyBuy
    \/ StrategySell
    \/ StrategyClose
    \/ TraderTickEnd
    \/ BacktestAdvance
    \/ BacktestFinish

SpecBacktest == InitBacktest /\ [][NextBacktest]_vars

\* --------------------------------------------- backtest with orders actions
\* Strategy.Next calls Trader.Order, with a fixed stop-loss or none
StrategyOrder ==
    /\ trader.pc = "next"
    /\ Len(orders) < MaxOrders
    /\ \E a \in CalledInputs, slip \in 0..Slippage :
          /\ a.units # 0
          /\ a.stopLoss \in {0, 1}
          /\ Commit(TraderOrder(BrokerState, candle, a.orderType, a.units, a.price,
                                a.stopLoss, a.takeProfit, slip).b)
    /\ UNCHANGED <<Spread, Slippage, candleCount, candle>>

\* Backtest of a strategy that places orders of every type.
NextOrders ==
    \/ BacktestInit
    \/ TraderTickBegin
    \/ StrategyOrder
    \/ TraderTickEnd
    \/ BacktestAdvance
    \/ BacktestFinish

SpecOrders == InitBacktest /\ [][NextOrders]_vars

\* ------------------------------------------------- backtest loop actions
\* What the Data columns read past their last row.
NaNCandle == [high |-> "NaN", low |-> "NaN", close |-> "NaN"]

\* NewTestBroker(nil, data, InitCash, leverage, Spread, startCandles) for a
\* Trader whose strategy places no order, and the entry of Backtest.
InitStart ==
    /\ \E startCandles \in 0..MaxStart :
          /\ candleCount = Max(startCandles, 1)
          /\ call = [op |-> "NewTestBroker", startCandles |-> startCandles]
    /\ IF candleCount <= DataLen THEN candle \in Candles ELSE candle = NaNCandle
    /\ Cash = InitCash
    /\ Spread \in {0, 1}
    /\ Slippage = 0
    /\ orders = <<>>
    /\ positions = <<>>
    /\ spreadCollectedUSD = 0
    /\ emitted = <<>>
    /\ mem = InitMem
    /\ objs = [id \in ObjIds |-> NoObject]
    /\ panicked = FALSE
    /\ FrameIdle
    /\ trader = [NoTrader EXCEPT !.pc = "start"]

NextStart ==
    \/ BacktestInit
    \/ TraderTickBegin
    \/ TraderTickEnd
    \/ BacktestAdvance
    \/ BacktestFinish

\* Backtest runs on: none of its statements blocks.
SpecStart == InitStart /\ [][NextStart]_vars /\ WF_vars(NextStart)

\* ------------------------------------------------------------ live actions
\* A Trader that Run is called with, trading at a Broker whose NAV moves by up
\* to NAVSwing around InitCash; the TestBroker only provides the candles.
InitLive ==
    /\ BrokerIdle
    /\ SeriesIdle
    /\ FrameIdle
    /\ trader = [NoTrader EXCEPT !.pc = "start"]

\* Run: t.Init()
LiveInit ==
    /\ trader.pc = "start"
    /\ trader' = [TraderInit(trader) EXCEPT !.pc = "loop"]
    /\ UNCHANGED <<brokerVars, seriesVars, frameVars>>

\* Run: the scheduler calls t.Tick(); Broker.NAV() returns nav
LiveTick ==
    /\ trader.pc \in {"loop", "advance"}
    /\ Len(trader.Dated.Equity) < MaxTicks
    /\ \E nav \in (InitCash - NAVSwing)..(InitCash + NAVSwing) :
          trader' = TickStats(TickBegin(trader, candleCount), nav, nav - InitCash)
    /\ UNCHANGED <<brokerVars, seriesVars, frameVars>>

NextLive ==
    \/ LiveInit
    \/ LiveTick

SpecLive == InitLive /\ [][NextLive]_vars

\* ------------------------------------------------------------------- claims
TickStep == Advance \/ BrokerTick

ZeroSlips == [i \in 1..MaxOrders |-> 0]

InRange(x, c) == c.low <= x /\ x <= c.high

\* The position of a fulfilled order.
PositionOf(os, ps, i) == ps[os[i].position]

\* C1: a pending Limit or Stop order is filled by Tick exactly when the
\* tick's candle has low <= order price <= high, at the order price
\* (Slippage = 0), and is left pending as it was by any other tick; the test
\* is the same for both order types.
C1_PendingFilledWhenInRange ==
    [][TickStep =>
        \A i \in 1..Len(orders) :
            (~Fulfilled(orders[i]) /\ orders[i].orderType \in {Limit, Stop}) =>
                IF InRange(orders[i].price, candle')
                THEN /\ Fulfilled(orders'[i])
                     /\ Slippage = 0 =>
                          PositionOf(orders', positions', i).entryPrice = orders[i].price
                     /\ PositionOf(orders', positions', i).units = orders[i].units
                     /\ orders'[i].position > Len(positions)
                ELSE orders'[i] = orders[i]]_vars

\* C1 witness: a Stop and a Limit order, neither filled at placement, were
\* filled by a tick at their price.
C1_Witness ==
    /\ Slippage = 0
    /\ \E i \in 1..Len(orders) :
          /\ orders[i].orderType = Stop
          /\ Fulfilled(orders[i])
          /\ InRange(orders[i].price, candle)
          /\ PositionOf(orders, positions, i).entryPrice = orders[i].price
    /\ \E i \in 1..Len(orders) :
          /\ orders[i].orderType = Limit
          /\ Fulfilled(orders[i])
          /\ candleCount > 1
          /\ PositionOf(orders, positions, i).entryPrice = orders[i].price

\* The take-profit and stop conditions of the claims, on the candle of a tick.
TakeProfitCond(p, c) ==
    p.takeProfit > 0 /\ IF p.units > 0 THEN p.takeProfit <= c.high
                                       ELSE p.takeProfit >= c.low

StopLossCond(p, c) ==
    p.stopLoss > 0 /\ IF p.units > 0 THEN p.stopLoss >= c.low
                                     ELSE p.stopLoss <= c.high

TrailingStopCond(p, c) ==
    p.trailingSL > 0 /\ IF p.units > 0 THEN p.trailingSL >= c.low
                                       ELSE p.trailingSL <= c.high

\* Position j was open when the step began (or was opened by the step).
OpenBefore(j) == j > Len(positions) \/ ~positions[j].closed

\* C2: when the take-profit condition and the stop-loss (or trailing-stop)
\* condition of an open position both hold on the candle of a Tick, the
\* position is closed at the take-profit price with CloseTakeProfit, once.
C2_TakeProfitBeforeStop ==
    [][TickStep =>
        \A j \in 1..Len(positions') :
            (/\ OpenBefore(j)
             /\ TakeProfitCond(positions'[j], candle')
             /\ \/ StopLossCond(positions'[j], candle')
                \/ TrailingStopCond(positions'[j], candle')) =>
                /\ positions'[j].closed
                /\ positions'[j].closePrice = positions'[j].takeProfit
                /\ positions'[j].closeType = CloseTakeProfit
                /\ emitted'[j] = 1]_vars

\* C2 witness: a position with a fixed stop and one with a trailing stop were
\* closed by take-profit on a candle that also reaches the stop.
C2_Witness ==
    /\ \E j \in 1..Len(positions) :
          /\ positions[j].closed /\ positions[j].closeType = CloseTakeProfit
          /\ TakeProfitCond(positions[j], candle)
          /\ StopLossCond(positions[j], candle)
    /\ \E j \in 1..Len(positions) :
          /\ positions[j].closed /\ positions[j].closeType = CloseTakeProfit
          /\ TakeProfitCond(positions[j], candle)
          /\ TrailingStopCond(positions[j], candle)

\* Entry value of every position and close value of the closed ones.
RECURSIVE EntryValueSum(_)
EntryValueSum(ps) ==
    IF ps = <<>> THEN 0 ELSE Head(ps).entryPrice * Head(ps).units + EntryValueSum(Tail(ps))

RECURSIVE CloseValueSum(_)
CloseValueSum(ps) ==
    IF ps = <<>> THEN 0
    ELSE (IF Head(ps).closed THEN Head(ps).closePrice * Head(ps).units ELSE 0)
         + CloseValueSum(Tail(ps))

\* C3: a position is closed at most once.  Once closed its record (closed
\* flag, close price, close type) never changes, PositionClosed has been
\* emitted exactly once for it (never for an open one), Cash holds exactly one
\* credit of close price x units per closed position, and its PL is the same
\* on every candle, whatever is called afterwards.
C3_ClosedOnce ==
    [][/\ \A j \in 1..Len(positions) :
            positions[j].closed =>
                /\ positions'[j] = positions[j]
                /\ emitted'[j] = emitted[j]
       /\ \A j \in 1..Len(positions') :
            /\ emitted'[j] = IF positions'[j].closed THEN 1 ELSE 0
            /\ positions'[j].closed =>
                  \A c \in Candles :
                      PositionPL(positions'[j], c)
                          = (positions'[j].closePrice - positions'[j].entryPrice)
                                * positions'[j].units
       /\ Cash' = InitCash - EntryValueSum(positions') + CloseValueSum(positions')]_vars

\* C3 witness: a position closed at market is still as it was closed on a
\* later candle with another price, on which its take-profit holds.
C3_Witness ==
    \E j \in 1..Len(positions) :
        /\ positions[j].closed
        /\ positions[j].closeType = CloseMarket
        /\ emitted[j] = 1
        /\ positions[j].closePrice # Price(candle, positions[j].units < 0)
        /\ TakeProfitCond(positions[j], candle)

\* C4: for an open long position with a trailing distance, each Tick sets the
\* trailing stop to max(previous trailing stop, current price - distance),
\* and no step lowers it.
C4_LongTrailingStopRatchet ==
    [][\A j \in 1..Len(positions) :
          (/\ ~positions[j].closed
           /\ positions[j].units > 0
           /\ positions[j].trailingSLDist > 0) =>
              /\ positions'[j].trailingSL >= positions[j].trailingSL
              /\ TickStep =>
                    positions'[j].trailingSL
                        = Max(positions[j].trailingSL,
                              candle'.close - positions[j].trailingSLDist)]_vars

\* C4 witness: the price fell after a rise and the trailing stop of an open
\* long position stayed where the rise had put it.
C4_Witness ==
    \E j \in 1..Len(positions) :
        /\ ~positions[j].closed
        /\ positions[j].units > 0
        /\ positions[j].trailingSLDist > 0
        /\ positions[j].trailingSL > 0
        /\ positions[j].trailingSL > candle.close - positions[j].trailingSLDist

\* C5: for an open short position with a trailing distance, each Tick sets
\* the trailing stop to min(previous trailing stop, current price +
\* distance), the first Tick to current price + distance; it never rises
\* once set, and the position is closed by trailing stop only when the
\* candle's high reaches that level.
C5_ShortTrailingStopRatchet ==
    [][TickStep =>
        \A j \in 1..Len(positions) :
            (/\ ~positions[j].closed
             /\ positions[j].units < 0
             /\ positions[j].trailingSLDist > 0) =>
                LET level == IF positions[j].trailingSL = 0
                             THEN Ask(candle') + positions[j].trailingSLDist
                             ELSE Min(positions[j].trailingSL,
                                      Ask(candle') + positions[j].trailingSLDist)
                IN /\ positions'[j].trailingSL = level
                   /\ positions'[j].closeType = CloseTrailingStop =>
                         level <= candle'.high]_vars

NoStops(p) == p.takeProfit = 0 /\ p.stopLoss = 0 /\ p.trailingSLDist = 0

\* C6: Cancel returns ErrCancelFailed for every order, pending or filled, and
\* leaves the broker as it was: a pending order is still among the open
\* orders and a later Tick whose candle contains its price still fills it.
C6_CancelAlwaysFails ==
    \A i \in 1..Len(orders) :
        LET r == Cancel(BrokerState, i)
        IN /\ r.err = ErrCancelFailed
           /\ r.b = BrokerState
           /\ ~Fulfilled(orders[i]) =>
                 /\ i \in OpenOrders(r.b.orders)
                 /\ \A c \in Candles :
                       InRange(orders[i].price, c) =>
                           Fulfilled(Tick(r.b, c, ZeroSlips).orders[i])

\* C6 witness: Cancel fails on a pending order and on a filled one.
C6_Witness ==
    /\ \E i \in 1..Len(orders) :
          ~Fulfilled(orders[i]) /\ Cancel(BrokerState, i).err = ErrCancelFailed
    /\ \E i \in 1..Len(orders) :
          Fulfilled(orders[i]) /\ Cancel(BrokerState, i).err = ErrCancelFailed

\* C7: NAV = initial Cash + PL, PL taken over every position, open or closed;
\* Cash is the initial cash less entry price x units of every position plus
\* close price x units of every closed one.
C7_NAVIsCashPlusPL ==
    /\ NAV = InitCash + PL
    /\ Cash = InitCash - EntryValueSum(positions) + CloseValueSum(positions)

\* C7 witness: an open and a closed position, both with a profit or a loss.
C7_Witness ==
    /\ \E j \in 1..Len(positions) :
          positions[j].closed /\ PositionPL(positions[j], candle) # 0
    /\ \E j \in 1..Len(positions) :
          ~positions[j].closed /\ PositionPL(positions[j], candle) # 0
    /\ NAV # InitCash

\* PL of the positions other than j.
PLWithout(j) ==
    PLSum(SubSeq(positions, 1, j - 1) \o SubSeq(positions, j + 1, Len(positions)),
          candle)

\* C8: with Spread = 0 and Slippage = 0, a market buy closed at a price equal
\* to its entry price leaves NAV where it would be without the trade, and a
\* buy followed by a sell of the same units at that price leaves NAV at the
\* initial cash.
C8_RoundTrip ==
    (Spread = 0 /\ Slippage = 0) =>
        /\ \A j \in 1..Len(positions) :
              (/\ positions[j].units > 0
               /\ positions[j].closed
               /\ positions[j].closeType = CloseMarket
               /\ positions[j].closePrice = positions[j].entryPrice) =>
                  /\ NAV = InitCash + PLWithout(j)
                  /\ Len(positions) = 1 => NAV = InitCash
        /\ (/\ Len(positions) = 2
            /\ positions[1].units > 0
            /\ positions[2].units = -positions[1].units
            /\ positions[2].entryPrice = positions[1].entryPrice
            /\ NoStops(positions[1]) /\ NoStops(positions[2])
            /\ positions[1].closed = positions[2].closed
            /\ positions[1].closePrice = positions[2].closePrice) =>
               NAV = InitCash

\* C8 witness: the only position, a buy, was closed at market on a later
\* candle at its entry price.
C8_Witness ==
    /\ Spread = 0 /\ Slippage = 0
    /\ Len(positions) = 1
    /\ positions[1].units > 0
    /\ positions[1].closed
    /\ positions[1].closeType = CloseMarket
    /\ positions[1].closePrice = positions[1].entryPrice
    /\ candleCount > 1
    /\ NAV = InitCash

\* The step placed a Market order (through the broker or the trader).
PlacedMarket ==
    /\ Len(orders') = Len(orders) + 1
    /\ orders'[Len(orders')].orderType = Market
    /\ Order \/ TraderBuy \/ TraderSell

\* C9: a Market order is filled inside Order: on return it is fulfilled and
\* its position has its units and, with Spread = 0 and Slippage = 0, the
\* candle's close as entry price whatever price was passed; NAV is the same
\* before and after the placement, and a tick that stays on the same close
\* with no stops and no pending orders around leaves NAV as it is.
C9_MarketOrderFilledAtPlacement ==
    [][/\ PlacedMarket =>
            LET i == Len(orders')
            IN /\ Fulfilled(orders'[i])
               /\ orders'[i].position = Len(positions')
               /\ Len(positions') = Len(positions) + 1
               /\ PositionOf(orders', positions', i).units = orders'[i].units
               /\ ~PositionOf(orders', positions', i).closed
               /\ (Spread = 0 /\ Slippage = 0) =>
                     /\ PositionOf(orders', positions', i).entryPrice = candle.close
                     /\ orders'[i].price = candle.close
                     /\ NAV' = NAV
       /\ (/\ Spread = 0 /\ Slippage = 0
           /\ candle'.close = candle.close
           /\ OpenOrders(orders) = {}
           /\ \A j \in OpenPositions(positions) : NoStops(positions[j])
           /\ TickStep) =>
              NAV' = NAV]_vars

\* C9 witness: a market order placed with a price argument other than the
\* close is filled at the close; a later candle with another close moved NAV.
C9_Witness ==
    /\ Spread = 0 /\ Slippage = 0
    /\ Len(orders) = 1
    /\ orders[1].orderType = Market
    /\ Fulfilled(orders[1])
    /\ positions[1].entryPrice # MaxPrice
    /\ ~positions[1].closed
    /\ candle.close = MaxPrice
    /\ NAV # InitCash

\* Open positions of the trader's symbol.
OpenOfSymbol(ps) == {j \in OpenPositions(ps) : ps[j].symbol = TraderSymbol}

StrictlyAscending(ixs) == \A i \in 1..(Len(ixs) - 1) : ixs[i] < ixs[i + 1]

Elements(ixs) == {ixs[i] : i \in 1..Len(ixs)}

\* The number of keys of ixs below k.
Rank(ixs, k) == Cardinality({i \in 1..Len(ixs) : ixs[i] < k})

\* Key list, key-to-row map and values agree.
Consistent(x) ==
    /\ Len(x.indexes) = Len(x.data)
    /\ Cardinality(DOMAIN x.index) = Len(x.data)
    /\ StrictlyAscending(x.indexes)
    /\ \A r \in 0..(Len(x.data) - 1) :
          Index(x, r).ok /\ Row(x, Index(x, r).key) = r

\* C11: after every Insert(key, value) of a sequence of Insert calls the keys
\* are strictly ascending, Row(key) is the rank of the key (-1 for a key never
\* inserted), the value found under the inserted key is the inserted one and
\* every other key keeps its value; inserting an existing key leaves the
\* length, the keys and the other rows as they were, a new key adds one row.
C11_InsertKeepsOrder ==
    [][call'.op = "Insert" =>
        LET x == IS(1)
            y == IS(1)'
            k == call'.key
        IN /\ StrictlyAscending(y.indexes)
           /\ Len(y.data) = Len(y.indexes)
           /\ \A kk \in Keys :
                 Row(y, kk) = IF kk \in Elements(y.indexes)
                              THEN Rank(y.indexes, kk) ELSE -1
           /\ ValueIndex(y, k) = call'.val
           /\ \A kk \in Keys \ {k} : ValueIndex(y, kk) = ValueIndex(x, kk)
           /\ IF Row(x, k) >= 0
              THEN /\ Len(y.data) = Len(x.data)
                   /\ y.indexes = x.indexes
                   /\ \A r \in 1..Len(x.data) :
                         r # Row(x, k) + 1 => y.data[r] = x.data[r]
              ELSE Len(y.data) = Len(x.data) + 1]_vars

\* C11 witness: a key between two others was inserted again with another
\* value, after keys were inserted out of order.
C11_Witness ==
    /\ call.op = "Insert"
    /\ call.len = 3
    /\ Len(IS(1).data) = 3
    /\ Row(IS(1), call.key) = 1
    /\ ValueIndex(IS(1), call.key) = call.val
    /\ IS(1).data = <<1, 2, 1>>

\* C12: after any sequence of Insert, Remove and RemoveRange the key list,
\* the key-to-row map and the value list have the same length, the keys are
\* strictly ascending, Row(Index(r)) = r for every row r, and a key that
\* Remove has just removed is absent: Row(key) = -1 and no Index(r) is it.
C12_RemoveKeepsConsistent ==
    /\ Consistent(IS(1))
    /\ call.op = "Remove" =>
          /\ Row(IS(1), call.key) = -1
          /\ \A r \in 0..(Len(IS(1).indexes) - 1) :
                Index(IS(1), r) # [ok |-> TRUE, key |-> call.key]

\* C13: ShiftIndex(periods, step) on a consistent series leaves at every row
\* r the key step(old key, periods) and the old value, and the map agrees:
\* Row(Index(r)) = r and the lookup by the new key gives the value of row r.
C13_ShiftIndexRelabels ==
    [][(call'.op = "ShiftIndex" /\ ~panicked' /\ Consistent(IS(1))) =>
        LET x == IS(1)
            y == IS(1)'
        IN /\ y.data = x.data
           /\ \A r \in 0..(Len(x.data) - 1) :
                 /\ Index(y, r).ok
                 /\ Index(y, r).key = step(Index(x, r).key, call'.periods)
                 /\ Row(y, Index(y, r).key) = r
                 /\ ValueIndex(y, Index(y, r).key) = x.data[r + 1]]_vars

\* -------------------------------------------------------------- Frame claims
\* Frame d of the frames f holds series s of the series c under its name.
Holds(f, c, d, s) ==
    /\ f[d].live
    /\ c[s].name \in DOMAIN f[d].series
    /\ f[d].series[c[s].name] = s

\* Frame d has its handler cb on signal sig of series s, bound to the name of s.
Subscribed(c, d, s, sig, cb) ==
    \E i \in 1..c[s].conns[sig].len :
        c[s].conns[sig].arr[i] = [identity |-> d, callback |-> cb, bindings |-> c[s].name]

\* Frame d has a handler cb on signal sig of series s.
Connected(c, d, s, sig, cb) == FindHandler(c[s].conns[sig], d, cb, 1) # 0

Resubscribed(c, d, s) ==
    /\ Subscribed(c, d, s, "NameChanged", "onSeriesNameChanged")
    /\ Subscribed(c, d, s, "LengthChanged", "onSeriesLengthChanged")

Holders(f, c, s) == {d \in FrameIds : Holds(f, c, d, s)}

Times(called, d) == Cardinality({i \in 1..Len(called) : called[i] = d})

\* C14: when a column held by one or more Frames, each subscribed under the
\* column's name and none with a column of the new name, is renamed with
\* SetName, the emission of NameChanged does not panic, calls the handler of
\* every such Frame exactly once, and leaves every such Frame mapping the new
\* name to the column, without an entry under the old name, with the row count
\* it had and subscribed under the new name.
C14_RenameRekeysFrames ==
    [][(/\ call'.op = "SetName"
        /\ call'.name # call'.old
        /\ Holders(frames, cols, call'.s) # {}
        /\ \A d \in Holders(frames, cols, call'.s) :
              /\ Resubscribed(cols, d, call'.s)
              /\ call'.name \notin DOMAIN frames[d].series)
       => (/\ ~panicked'
           /\ \A d \in Holders(frames, cols, call'.s) :
                 /\ Times(call'.called, d) = 1
                 /\ Holds(frames', cols', d, call'.s)
                 /\ call'.old \notin DOMAIN frames'[d].series
                 /\ call'.old \notin DOMAIN frames'[d].rowCounts
                 /\ frames'[d].rowCounts[call'.name] = frames[d].rowCounts[call'.old]
                 /\ Resubscribed(cols', d, call'.s))]_vars

\* C15: a PushSeries with a series whose name the Frame already holds returns
\* the error and leaves the Frame and the signal connections of every Series
\* as they were before the call.
C15_PushSeriesErrorChangesNothing ==
    [][(/\ call'.op = "PushSeries"
        /\ \E i \in 1..Len(call'.series) :
              cols[call'.series[i]].name \in DOMAIN frames[call'.d].series)
       => (call'.err /\ frames' = frames /\ cols' = cols)]_vars

Names(names) == {names[i] : i \in 1..Len(names)}

\* C16: RemoveSeries removes every named column the Frame holds and leaves the
\* Frame without a handler on it, keeps the other columns, and changes nothing
\* when the Frame holds none of the names.
C16_RemoveSeriesRemovesKnown ==
    [][call'.op = "RemoveSeries"
       => LET d == call'.d
              known == Names(call'.names) \cap DOMAIN frames[d].series
          IN /\ DOMAIN frames'[d].series = DOMAIN frames[d].series \ known
             /\ DOMAIN frames'[d].rowCounts = DOMAIN frames[d].rowCounts \ known
             /\ \A n \in DOMAIN frames'[d].series :
                   frames'[d].series[n] = frames[d].series[n]
             /\ \A n \in known :
                   /\ ~Connected(cols', d, frames[d].series[n], "NameChanged",
                                 "onSeriesNameChanged")
                   /\ ~Connected(cols', d, frames[d].series[n], "LengthChanged",
                                 "onSeriesLengthChanged")
             /\ known = {} => (frames' = frames /\ cols' = cols)]_vars

\* ------------------------------------------------------------- Copy claims
\* What a caller sees of the IndexedSeries s in the heap m: keys, rows, values,
\* name and the handlers connected to it and to its Series.
Seen(m, s) ==
    [indexes |-> m[s.indexes], index |-> m[s.index], series |-> m[s.series],
     handlers |-> m[s.sm]]

\* C17: a call of Insert, Remove, SetValue, Add or SignalConnect on one
\* IndexedSeries leaves the values, keys, length and signal subscribers of
\* every other IndexedSeries unchanged, its copy or its original included,
\* and CopyRange leaves its original unchanged.
C17_CopySharesNoState ==
    [][\A o \in Live :
          (call'.op = "CopyRange" \/ call'.id # o)
          => Seen(mem', objs'[o]) = Seen(mem, objs[o])]_vars

\* C17 witness: a value of a non-empty copy was set and differs from the
\* original's, whose keys the copy has.
C17_Witness ==
    /\ call.op = "SetValue"
    /\ call.id = 2
    /\ objs[2].live
    /\ IS(2).indexes = IS(1).indexes
    /\ Len(IS(2).data) = 2
    /\ IS(2).data # IS(1).data

\* --------------------------------------------------------- Backtest claims
Rows(c) == Len(trader.Dated[c])

StatsColumns == {"Date", "Equity", "Profit", "Drawdown", "Returns", "Trades"}

\* C18: Strategy.Init is called exactly once before the first Strategy.Next;
\* every Trader.Tick calls Strategy.Next exactly once, after the tick fetched
\* the candles up to the current one and before it pushes its stats row; and
\* every Tick of Backtest is followed by exactly one Advance before the next.
C18_InitOnceNextPerTick ==
    /\ trader.inits <= 1
    /\ trader.nexts > 0 => trader.inits = 1
    /\ trader.nexts = trader.ticks
    /\ trader.pc = "next"
          => /\ trader.data.end = candleCount
             /\ Rows("Date") = trader.nexts - 1
             /\ trader.advances = trader.ticks - 1
    /\ trader.pc = "advance"
          => /\ Rows("Date") = trader.nexts
             /\ trader.advances = trader.ticks - 1
    /\ trader.pc \in {"loop", "done"}
          => /\ Rows("Date") = trader.nexts
             /\ trader.advances = trader.ticks

\* C18 witness: a Backtest over DataLen candles has ended.
C18_Witness ==
    /\ trader.pc = "done"
    /\ trader.inits = 1
    /\ trader.ticks = DataLen
    /\ trader.nexts = DataLen
    /\ trader.advances = DataLen

\* C19: in Backtest Candles reports ErrEOF exactly once, on the tick whose
\* current candle is the last row of Data; Trader.EOF is false before that
\* and true ever after; that tick still runs Strategy.Next and pushes its
\* stats row; and no Tick follows it.
C19_EOFOnLastCandle ==
    [][/\ trader'.eofs <= 1
       /\ trader'.EOF <=> trader'.eofs = 1
       /\ trader'.pc = "next" => (trader'.EOF <=> candleCount' = DataLen)
       /\ trader'.EOF => /\ trader'.ticks = DataLen
                         /\ trader'.nexts = trader'.ticks
                         /\ trader'.pc # "next" => Rows("Date")' = trader'.ticks
       /\ trader.EOF => trader'.EOF /\ trader'.ticks = trader.ticks]_vars

\* C19 witness: the end of the data was reported on the last candle and the
\* Backtest ended with one stats row a candle.
C19_Witness ==
    /\ trader.pc = "done"
    /\ trader.EOF
    /\ trader.eofs = 1
    /\ candleCount = DataLen
    /\ Rows("Date") = DataLen

\* What C20 says of the rows and of the accumulators: after k Ticks every
\* stats column has k rows, with nil only in Returns and Trades; a close that
\* was recorded stands in tradesThisCandle, with a return only if there is
\* one; and the accumulators are zero and empty at the end of every tick.
StatsRows ==
    /\ \A c \in StatsColumns :
          Rows(c)' = IF trader'.pc = "next" THEN trader'.ticks - 1 ELSE trader'.ticks
    /\ \A c \in StatsColumns \ {"Returns", "Trades"} :
          \A i \in 1..Rows(c)' : trader'.Dated[c][i] # Nil
    /\ trader'.tradesThisCandle = <<>> => trader'.returnsThisCandle = 0
    /\ trader'.pc = "advance"
          => trader'.returnsThisCandle = 0 /\ trader'.tradesThisCandle = <<>>

\* Trader.Tick pushed its stats row in this step.
RowPushed == trader.pc = "next" /\ trader'.pc = "advance"

LastRow(c) == trader'.Dated[c][Rows(c)']

\* C20 as stated: with StatsRows, the Returns of a row is nil exactly when no
\* position close was recorded since the previous row.
C20_ReturnsNilIffNoClose ==
    [][/\ StatsRows
       /\ RowPushed => (LastRow("Returns") = Nil <=> trader.tradesThisCandle = <<>>)]_vars

\* C20 amended: with StatsRows, the Returns of a row is nil exactly when the
\* returns recorded since the previous row are zero, which they are when no
\* close was recorded, and the Trades of a row is nil exactly when no close
\* was recorded since the previous row.
C20_ReturnsNilIffZero ==
    [][/\ StatsRows
       /\ RowPushed
             => /\ LastRow("Returns") = Nil <=> trader.returnsThisCandle = 0
                /\ LastRow("Returns") # Nil
                      => LastRow("Returns") = Some(trader.returnsThisCandle)
                /\ LastRow("Trades") = Nil <=> trader.tradesThisCandle = <<>>
                /\ trader.tradesThisCandle = <<>> => LastRow("Returns") = Nil]_vars

\* C20 witness: after two ticks a row has trades (a position was closed) and
\* nil Returns, the close having made no profit or loss.
C20_Witness ==
    /\ trader.pc = "advance"
    /\ Rows("Returns") = 2
    /\ trader.Dated.Returns[2] = Nil
    /\ trader.Dated.Trades[2] # Nil
    /\ trader.Dated.Returns[1] # Nil

\* ---------------------------------------------------------- Candles claims
\* The rows first + 1 .. last of the column x, as a column on its own.
Slice(x, first, last) ==
    [indexes |-> SubSeq(x.indexes, first + 1, last),
     index |-> [k \in {x.indexes[i] : i \in (first + 1)..last} |-> x.index[k] - first],
     data |-> SubSeq(x.data, first + 1, last)]

\* The step is a call of Candles, or a write to the frame it returned: Advance
\* leaves call as it is, and changes candleCount or nothing.
CandlesReturned == call'.op = "Candles" /\ candleCount' = candleCount

CandlesWritten == call'.op \in {"SetValue", "Insert"} /\ candleCount' = candleCount

OrderPlaced == call'.op = "Order" /\ call'.err = NoErr

\* C22: a negative stopLoss argument of Order gives the order a trailing stop
\* of distance -stopLoss and a fixed stop-loss of 0, any other a fixed
\* stop-loss of stopLoss and a trailing distance of 0, and the position of the
\* order takes both from it; no order and no position has both a fixed
\* stop-loss > 0 and a trailing distance > 0; a position with a trailing
\* distance is never closed with CloseStopLoss, one with a fixed stop-loss
\* never with CloseTrailingStop.
C22_StopLossSignSelectsStop ==
    [][/\ OrderPlaced
          => LET a == call'.args
                 o == orders'[Len(orders')]
             IN /\ Len(orders') = Len(orders) + 1
                /\ IF a.stopLoss < 0
                   THEN o.trailingSL = -a.stopLoss /\ o.stopLoss = 0
                   ELSE o.stopLoss = a.stopLoss /\ o.trailingSL = 0
       /\ \A i \in 1..Len(orders') :
             /\ ~(orders'[i].stopLoss > 0 /\ orders'[i].trailingSL > 0)
             /\ Fulfilled(orders'[i])
                  => /\ PositionOf(orders', positions', i).trailingSLDist = orders'[i].trailingSL
                     /\ PositionOf(orders', positions', i).stopLoss = orders'[i].stopLoss
       /\ \A j \in 1..Len(positions') :
             /\ ~(positions'[j].stopLoss > 0 /\ positions'[j].trailingSLDist > 0)
             /\ positions'[j].trailingSLDist > 0 => positions'[j].closeType # CloseStopLoss
             /\ positions'[j].stopLoss > 0 => positions'[j].closeType # CloseTrailingStop
             /\ positions'[j].trailingSLDist = 0 => positions'[j].trailingSL = 0]_vars

\* C22 witness: a Stop order placed with a negative stopLoss was filled by a
\* tick and its position closed by its trailing stop.
C22_Witness ==
    /\ Len(orders) = 1
    /\ orders[1].orderType = Stop
    /\ orders[1].trailingSL = 1
    /\ orders[1].stopLoss = 0
    /\ Fulfilled(orders[1])
    /\ positions[1].trailingSLDist = 1
    /\ positions[1].closeType = CloseTrailingStop

\* Position j was closed at market by this step.
ClosedAtMarket(j) ==
    /\ ~positions[j].closed
    /\ positions'[j].closed
    /\ positions'[j].closeType = CloseMarket

\* C23: with Slippage = 0 and Spread = s > 0 a market buy is filled at the
\* candle's close + s and a market sell at the close - s, and a position is
\* closed at the same prices: a long at the close - s, a short at the
\* close + s.
C23_SpreadChargedBothWays ==
    [][(Slippage = 0 /\ Spread > 0)
       => /\ PlacedMarket
             => LET p == PositionOf(orders', positions', Len(orders'))
                IN p.entryPrice = IF p.units > 0 THEN candle.close + Spread
                                  ELSE candle.close - Spread
          /\ \A j \in 1..Len(positions) :
                ClosedAtMarket(j)
                => positions'[j].closePrice =
                      IF positions[j].units > 0 THEN candle.close - Spread
                      ELSE candle.close + Spread]_vars

\* The difference of the fill price and the requested price atPrice, and
\* Slippage x atPrice, both in units of 1 / PriceScale.
SlipOf(atPrice, slippageNum, sample) ==
    SlippedPrice(atPrice, slippageNum, sample) - atPrice * PriceScale

SlipLimit(atPrice, slippageNum) == 2 * SampleDen * slippageNum * atPrice

\* C24: the price of a fill differs from the requested price p by an amount
\* within [-Slippage x p, +Slippage x p], which is 0 when Slippage = 0 and
\* which, when Slippage > 0, is negative for some samples and positive for
\* others.
C24_SlippageSymmetric ==
    call.op = "filled"
    => LET slip == call.entryPrice - call.atPrice * PriceScale
       IN /\ slip >= -SlipLimit(call.atPrice, call.Slippage)
          /\ slip <= SlipLimit(call.atPrice, call.Slippage)
          /\ call.Slippage = 0 => slip = 0
          /\ call.Slippage > 0
                => /\ \E k \in 0..(SampleDen - 1) :
                         SlipOf(call.atPrice, call.Slippage, k) > 0
                   /\ \E k \in 0..(SampleDen - 1) :
                         SlipOf(call.atPrice, call.Slippage, k) < 0

\* The call of this step left the broker as it was: no order, no position, no
\* PositionClosed signal (OrderPlaced is only emitted for an order added to
\* orders), the same Cash, NAV and PL.
BrokerUntouched ==
    /\ orders' = orders
    /\ positions' = positions
    /\ emitted' = emitted
    /\ Cash' = Cash
    /\ spreadCollectedUSD' = spreadCollectedUSD
    /\ NAV' = NAV
    /\ PL' = PL

\* C25: TestBroker.Order with units = 0 returns ErrZeroUnits and Trader.Buy
\* and Trader.Sell with units <= 0 return ErrInvalidUnits; the call creates no
\* order and no position, emits no signal and leaves Cash, NAV and PL as they
\* were.  No other call of the three is rejected.
C25_RejectedCallChangesNothing ==
    [][/\ call'.op = "Order"
          => IF call'.args.units = 0
             THEN call'.err = ErrZeroUnits /\ BrokerUntouched
             ELSE call'.err = NoErr
       /\ call'.op \in {"Buy", "Sell"}
          => IF call'.units <= 0
             THEN call'.err = ErrInvalidUnits /\ BrokerUntouched
             ELSE call'.err = NoErr]_vars

\* C25 witness: Order was called with units = 0 and rejected while a position
\* was open on a later candle than its entry, so that NAV differs from Cash.
C25_Witness ==
    /\ call.op = "Order"
    /\ call.args.units = 0
    /\ call.err = ErrZeroUnits
    /\ Len(positions) = 1
    /\ ~positions[1].closed
    /\ candleCount > 1
    /\ NAV # Cash
    /\ PL # 0

\* ------------------------------------------------------- arithmetic claims
\* What the call op is to make of a value of a and the value of b at its key.
Combined(op, a, b) ==
    CASE op = "Add" -> a + b
      [] op = "Sub" -> a - b
      [] op = "Mul" -> a * b
      [] op = "Div" -> a \div b

\* What the code makes of them.
CombinedAsCoded(op, a, b) == IF op = "Sub" THEN a \div b ELSE Combined(op, a, b)

\* The effect of a.Add(b), a.Sub(b), a.Mul(b) and a.Div(b), with what the call
\* is to make of two values or, if coded, what the code makes of them: the keys and the length of a stay; a
\* row of a whose key b has holds the two values at the key combined,
\* whichever row the key has in b; every other row of a and all of b stay.
ArithEffect(coded) ==
    call'.op \in {"Add", "Sub", "Mul", "Div"}
    => LET a == IS(call'.id)
           b == IS(call'.other)
           after == Load(mem', objs'[call'.id])
       IN /\ after.indexes = a.indexes
          /\ after.index = a.index
          /\ Len(after.data) = Len(a.data)
          /\ \A k \in DOMAIN a.index :
                ValueIndex(after, k) =
                    IF k \in DOMAIN b.index
                    THEN IF coded
                         THEN CombinedAsCoded(call'.op, ValueIndex(a, k), ValueIndex(b, k))
                         ELSE Combined(call'.op, ValueIndex(a, k), ValueIndex(b, k))
                    ELSE ValueIndex(a, k)
          /\ call'.other # call'.id
                => Seen(mem', objs'[call'.other]) = Seen(mem, objs[call'.other])
          /\ ~panicked'

\* C26: a.Add(b), a.Sub(b), a.Mul(b) and a.Div(b) change only the rows of a
\* whose key is also a key of b, to the sum, difference, product and quotient
\* of the two values at the key, whichever rows the key has; the rows of a
\* whose key b lacks, the keys and the length of a, and all of b stay.
C26_ArithmeticOnSharedKeys == [][ArithEffect(FALSE)]_vars

\* The same with Sub as the code has it.
ArithmeticAsCoded == [][ArithEffect(TRUE)]_vars

\* ---------------------------------------------------------- rolling claims
\* The sum of the rows lo..hi of data, rows counted from 0.
RECURSIVE RowSum(_, _, _)
RowSum(data, lo, hi) == IF lo > hi THEN 0 ELSE data[lo + 1] + RowSum(data, lo + 1, hi)

\* C27: Rolling(period).Mean() is as long as the series, and at every row i it
\* is the arithmetic mean of the values of the rows max(0, i - period + 1) .. i,
\* which are min(period, i + 1) values; of the values 1..5 with period 5 it is
\* 1, 1.5, 2, 2.5, 3.
C27_RollingMeanGrowingWindow ==
    call.op = "Mean"
    => /\ Len(call.out) = Len(call.data)
       /\ call.period >= 1
             => \A i \in 0..(Len(call.data) - 1) :
                   LET lo == Max(0, i - call.period + 1)
                       n == Min(call.period, i + 1)
                       m == call.out[i + 1]
                   IN /\ m.den = n
                      /\ m.num * n = RowSum(call.data, lo, i) * m.den
       /\ (call.data = <<1, 2, 3, 4, 5>> /\ call.period = 5)
             => \A i \in 1..5 : 2 * call.out[i].num = (i + 1) * call.out[i].den

\* C27 witness: the mean of the values 1..5 with period 3 was taken: two rows
\* of a growing window, then three rows of three values each.
C27_Witness ==
    /\ call.op = "Mean"
    /\ call.data = <<1, 2, 3, 4, 5>>
    /\ call.period = 3
    /\ call.out = <<[num |-> 1, den |-> 1], [num |-> 3, den |-> 2], [num |-> 6, den |-> 3],
                    [num |-> 9, den |-> 3], [num |-> 12, den |-> 3]>>

\* ------------------------------------------------------------- live claims
\* C28: in every stats row Drawdown is max(0, Equity of the first row - Equity
\* of the row): 0 in the first row, never negative, and taken from the first
\* Equity recorded, not from the highest so far.
C28_DrawdownFromFirstEquity ==
    /\ Len(trader.Dated.Drawdown) = Len(trader.Dated.Equity)
    /\ \A i \in 1..Len(trader.Dated.Equity) :
          LET first == trader.Dated.Equity[1][1]
              equity == trader.Dated.Equity[i][1]
              drawdown == trader.Dated.Drawdown[i]
          IN /\ drawdown = Some(Max(0, first - equity))
             /\ drawdown[1] >= 0
             /\ i = 1 => drawdown = Some(0)

\* C28 witness: Equity rose above the first row's and then fell, not below the
\* first row's: the Drawdown of the third row is 0 though Equity is below its
\* highest; and a row below the first has a Drawdown.
C28_Witness ==
    /\ Len(trader.Dated.Equity) = 3
    /\ trader.Dated.Equity[2][1] > trader.Dated.Equity[1][1]
    /\ trader.Dated.Equity[3][1] < trader.Dated.Equity[2][1]
    /\ trader.Dated.Equity[3][1] >= trader.Dated.Equity[1][1]
    /\ trader.Dated.Drawdown[3] = Some(0)

\* ----------------------------------------------------- placement claims
\* The step appended an order to the broker's list.
Placed == Len(orders') = Len(orders) + 1

\* The order is still pending after the step and the step opened no position
\* and moved no cash.
LeftPending(i) ==
    /\ ~Fulfilled(orders'[i])
    /\ orders'[i].position = 0
    /\ positions' = positions
    /\ Cash' = Cash

\* The order's position was opened by the step, at the cost of its entry value.
FilledInStep(i) ==
    /\ Fulfilled(orders'[i])
    /\ orders'[i].position = Len(positions')
    /\ Len(positions') = Len(positions) + 1
    /\ PositionOf(orders', positions', i).units = orders'[i].units
    /\ ~PositionOf(orders', positions', i).closed
    /\ Cash' = Cash - EntryValue(PositionOf(orders', positions', i))

\* A Limit order that the market price already satisfies when it is placed.
Marketable(o, c) ==
    /\ o.orderType = Limit
    /\ \/ o.units > 0 /\ Price(c, TRUE) <= o.price
       \/ o.units < 0 /\ Price(c, FALSE) >= o.price

ClosedInStep(j) ==
    /\ positions'[j].closed
    /\ j <= Len(positions) => ~positions[j].closed

\* The level that closes a position with the given close type.
TriggerLevel(p) ==
    CASE p.closeType = CloseTakeProfit -> p.takeProfit
      [] p.closeType = CloseStopLoss -> p.stopLoss
      [] p.closeType = CloseTrailingStop -> p.trailingSL
      [] OTHER -> 0

\* C30: when a tick closes a position by take-profit, stop-loss or trailing
\* stop, the level lies inside the tick's candle (low <= level <= high) and the
\* close price is the level; a level outside the candle closes nothing.
C30_TriggerInsideCandle ==
    [][\A j \in 1..Len(positions') :
          (/\ ClosedInStep(j)
           /\ positions'[j].closeType
                 \in {CloseTakeProfit, CloseStopLoss, CloseTrailingStop}) =>
             /\ positions'[j].closePrice = TriggerLevel(positions'[j])
             /\ InRange(TriggerLevel(positions'[j]), candle')]_vars

\* ------------------------------------------------------ tick order claims
\* The step is a call of Advance, which runs Tick on the candle after it.
TickCalled == call'.op = "Advance"

\* Position j of the step's end as the "Update positions" loop found it: as it
\* was before the step, or as fulfill made it earlier in the step.
FoundByLoop(j) ==
    IF j <= Len(positions) THEN positions[j]
    ELSE [positions'[j] EXCEPT !.trailingSL = 0, !.closed = FALSE,
                               !.closePrice = 0, !.closeType = ""]

\* C31: in one Tick every pending order that the candle triggers is filled
\* before the positions are looked at, so that every open position, the ones
\* filled in this Tick included, first has its trailing stop ratcheted and is
\* then closed by its take-profit if that is hit, else by its stop-loss or
\* trailing stop if that is hit, and else stays open.
C31_OrdersThenPositions ==
    [][TickCalled =>
          /\ Len(orders') = Len(orders)
          /\ \A i \in 1..Len(orders) :
                /\ (~Fulfilled(orders[i]) /\ OrderTriggered(orders[i], candle'))
                      => Fulfilled(orders'[i]) /\ orders'[i].position > Len(positions)
                /\ (~Fulfilled(orders[i]) /\ ~OrderTriggered(orders[i], candle'))
                      => ~Fulfilled(orders'[i])
          /\ \A j \in 1..Len(positions') :
                LET was == FoundByLoop(j)
                    p == positions'[j]
                IN ~was.closed =>
                      /\ p.trailingSL = Ratchet(was, candle').trailingSL
                      /\ IF TakeProfitHit(p, candle')
                         THEN /\ p.closed
                              /\ p.closeType = CloseTakeProfit
                              /\ p.closePrice = p.takeProfit
                         ELSE IF StopLossHit(p, candle')
                         THEN /\ p.closed
                              /\ p.closeType = CloseStopLoss
                              /\ p.closePrice = p.stopLoss
                         ELSE IF TrailingStopHit(p, candle')
                         THEN /\ p.closed
                              /\ p.closeType = CloseTrailingStop
                              /\ p.closePrice = p.trailingSL
                         ELSE ~p.closed]_vars

\* C31 witness: a Stop order, which no placement fills, has a position that
\* the tick of the second candle opened and closed by take-profit, on a candle
\* that also reaches its stop-loss.
C31_Witness ==
    /\ call.op = "Advance"
    /\ candleCount = 2
    /\ Len(orders) = 1
    /\ orders[1].orderType = Stop
    /\ Fulfilled(orders[1])
    /\ positions[1].units > 0
    /\ positions[1].closed
    /\ positions[1].closeType = CloseTakeProfit
    /\ StopLossHit(positions[1], candle)

\* ------------------------------------------------------ termination claims
\* The ticks of a Backtest run, the loop ending and the close-out.
LoopEnds ==
    /\ [][\/ candleCount' = candleCount
          \/ candleCount' = candleCount + 1 /\ trader.pc = "advance"]_vars
    /\ [](candleCount < DataLen => ~trader.EOF)
    /\ <>trader.EOF
    /\ <>[](trader.pc = "done")
    /\ [](trader.pc = "done" =>
             trader.ticks = Max(1, DataLen - Max(call.startCandles, 1) + 1))

\* C32: for every startCandles >= 0 the Backtest loop ends: candleCount grows
\* by one an Advance until it is Data.Len() and is never above it, Trader.EOF
\* becomes true, and max(1, Data.Len() - max(startCandles, 1) + 1) ticks ran.
C32_BacktestTerminates == LoopEnds /\ [](candleCount <= DataLen)

\* The same without the limit of candleCount.
BacktestTerminatesAsCoded == LoopEnds

\* --------------------------------------------------------- PushValues claims
\* C33: PushValues of a map with a name that is no column of the Frame returns
\* an error and leaves every column and the Frame as they were, in whichever
\* order the map is iterated.
C33_PushValuesErrorChangesNothing ==
    [][call'.op = "PushValues" =>
          /\ (\E i \in 1..Len(call'.order) :
                 call'.order[i] \notin DOMAIN frames[call'.d].series)
                => call'.err
          /\ call'.err => cols' = cols /\ frames' = frames]_vars

\* ------------------------------------------------------------ spread claims
Abs(x) == IF x < 0 THEN -x ELSE x

\* The sum of |units| over the closed positions among the first n.
RECURSIVE ClosedUnits(_, _)
ClosedUnits(ps, n) ==
    IF n = 0 THEN 0
    ELSE ClosedUnits(ps, n - 1) + (IF ps[n].closed THEN Abs(ps[n].units) ELSE 0)

\* C34: SpreadCollected() never decreases and is always Spread times the sum
\* of |units| over the closed positions, long and short.
C34_SpreadCollectedGrows ==
    /\ [][spreadCollectedUSD' >= spreadCollectedUSD]_vars
    /\ [](spreadCollectedUSD = Spread * ClosedUnits(positions, Len(positions)))

\* ------------------------------------------------------------- value claims
\* The step is Position.Close() on the open position j.
ClosedByCall(j) ==
    /\ j <= Len(positions)
    /\ ~positions[j].closed
    /\ positions'[j].closed
    /\ positions'[j].closeType = CloseMarket

\* C39: with any Spread and no slippage the Value() of an open position is
\* what Cash is credited when it is closed at market now, so Position.Close()
\* on an open position, long or short, leaves NAV() as it is.
C39_CloseKeepsNAV ==
    [][\A j \in 1..Len(positions') :
          ClosedByCall(j) =>
             /\ Cash' - Cash = Value(positions[j], candle)
             /\ NAV' = NAV]_vars

\* ------------------------------------------------- IndexedFrame claims
\* C35: after IndexedSeries.SetName(new) on a column that an IndexedFrame
\* holds (and that has no other column of the new name), the IndexedFrame
\* returns the column from Series(new), nil from Series(old), and lists the
\* new name in place of the old one.
C35_IndexedFrameFollowsRename ==
    [][(call'.op = "SetName" /\ call'.name # call'.old) =>
          \A f \in LiveFrames :
             (/\ IndexedFrameSeries(frames[f], call'.old) = call'.s
              /\ call'.name \notin DOMAIN frames[f].series) =>
                /\ IndexedFrameSeries(frames'[f], call'.name) = call'.s
                /\ IndexedFrameSeries(frames'[f], call'.old) = 0
                /\ DOMAIN frames'[f].series =
                      (DOMAIN frames[f].series \ {call'.old}) \cup {call'.name}]_vars

\* ------------------------------------------------------------- Sub claims
\* C36: a.Sub(b) sets every row of a whose key b also has to a's value minus
\* b's value at the key.
C36_SubSubtracts ==
    [][call'.op = "Sub" =>
          LET a == IS(call'.id)
              b == IS(call'.other)
              after == Load(mem', objs'[call'.id])
          IN \A k \in DOMAIN a.index \cap DOMAIN b.index :
                ValueIndex(after, k) = ValueIndex(a, k) - ValueIndex(b, k)]_vars

\* ------------------------------------------------------ one-fill claims
FulfilledOrders(os) == {i \in 1..Len(os) : Fulfilled(os[i])}

\* C37: an order has at most one position: a filled order keeps its position
\* through every later call, the positions of the broker are, one to one, the
\* positions of the fulfilled orders, and each has the units, the symbol, the
\* take-profit and the stop settings of its order.
C37_OnePositionPerOrder ==
    /\ [](/\ Len(positions) = Cardinality(FulfilledOrders(orders))
          /\ \A i \in FulfilledOrders(orders) :
                /\ orders[i].position \in 1..Len(positions)
                /\ \A k \in FulfilledOrders(orders) :
                      orders[k].position = orders[i].position => k = i
                /\ PositionOf(orders, positions, i).units = orders[i].units
                /\ PositionOf(orders, positions, i).symbol = orders[i].symbol
                /\ PositionOf(orders, positions, i).takeProfit = orders[i].takeProfit
                /\ PositionOf(orders, positions, i).stopLoss = orders[i].stopLoss
                /\ PositionOf(orders, positions, i).trailingSLDist = orders[i].trailingSL)
    /\ [][/\ Len(orders') >= Len(orders)
          /\ Len(positions') >= Len(positions)
          /\ \A i \in FulfilledOrders(orders) :
                /\ orders'[i].position = orders[i].position
                /\ PositionOf(orders', positions', i).entryPrice
                      = PositionOf(orders, positions, i).entryPrice]_vars

\* C37 witness: a Stop order with a position from a tick and a Market order
\* with a position from its placement, on a candle that still covers the Stop
\* order's price after the position of the Stop order was closed by hand.
C37_Witness ==
    /\ Len(orders) = 2
    /\ Len(positions) = 2
    /\ orders[1].orderType = Stop
    /\ orders[2].orderType = Market
    /\ Fulfilled(orders[1])
    /\ Fulfilled(orders[2])
    /\ OrderTriggered(orders[1], candle)
    /\ PositionOf(orders, positions, 1).closed
    /\ PositionOf(orders, positions, 1).closeType = CloseMarket

\* ---------------------------------------------------- look-ahead claims
\* The step filled an order that was pending, or closed a position by one of
\* its triggers.
Triggered ==
    \/ \E i \in 1..Len(orders) : ~Fulfilled(orders[i]) /\ Fulfilled(orders'[i])
    \/ \E j \in 1..Len(positions') :
          /\ ClosedInStep(j)
          /\ positions'[j].closeType
                \in {CloseTakeProfit, CloseStopLoss, CloseTrailingStop}

\* C38: in a Backtest run a pending order is filled, and a position closed by
\* a trigger, only by a step that has moved on to the next candle: what the
\* strategy places during the tick of a candle is never tested against the
\* high and low of that candle, the last candle of the data included.
C38_TestedAgainstNextCandle ==
    [][Triggered => candleCount' = candleCount + 1]_vars

\* ------------------------------------------------------- returns claims
\* The sum of the Returns entries that are not nil, of the first n rows.
RECURSIVE ReturnsSum(_, _)
ReturnsSum(returns, n) ==
    IF n = 0 THEN 0
    ELSE ReturnsSum(returns, n - 1) + (IF returns[n] = Nil THEN 0 ELSE returns[n][1])

\* The sum of PL() over the closed positions among the first n.
RECURSIVE ClosedPL(_, _)
ClosedPL(ps, n) ==
    IF n = 0 THEN 0
    ELSE ClosedPL(ps, n - 1) + (IF ps[n].closed THEN PositionPL(ps[n], candle) ELSE 0)

\* C40: when Backtest has finished, the Returns entries of the stats frame
\* that are not nil sum to the PL() of all closed positions: every close, by
\* the strategy, by a tick of Advance or by the close-out after the loop, is
\* in one stats row.
C40_ReturnsSumToClosedPL ==
    trader.pc = "done" =>
        ReturnsSum(trader.Dated.Returns, Len(trader.Dated.Returns))
            = ClosedPL(positions, Len(positions))
====
